---- MODULE Spec2Model ----
(***************************************************************************)
(* State-machine model of the OYE OCPP proxy's session mediator            *)
(* (server part of src/db/adapter.js, lines 160-1155): the clients         *)
(* registry, the per-connection closures of wss.on('connection'), the      *)
(* upstream (CSMS) sockets with their reconnect timers, command injection  *)
(* with response interception, the standalone responder and the message    *)
(* log.  One chargePointId is modelled; every WebSocket upgrade for it     *)
(* runs its own instance of the connection handler (a "closure").          *)
(***************************************************************************)
EXTENDS Integers, Sequences, FiniteSets, Bags, TLC

(***************************************************************************)
(* Bounds of the model.                                                    *)
(***************************************************************************)
MaxConns == 2       \* WebSocket upgrades accepted for the charge point
MaxSockets == 4     \* upstream sockets created by connectToCsms
MaxCalls == 2       \* Calls sent by the charger side
MaxResults == 2     \* CallResult / CallError frames sent by the charger side
MaxUuids == 2       \* message ids drawn with crypto.randomUUID()
MaxCsmsCalls == 1   \* Calls the CSMS sends down
MaxFlood == 1025    \* Calls of a charger that keeps sending (SpecFlood)
MaxRequests == 2    \* REST requests answered with an error
MaxMalformed == 1   \* frames of a charger that are no OCPP frames

(***************************************************************************)
(* Program constants.                                                      *)
(***************************************************************************)
CSMS_RECONNECT_MAX_ATTEMPTS == 3
CSMS_RECONNECT_BASE_DELAY == 1000
null == 0

Conns == 1..MaxConns

(***************************************************************************)
(* Frames.  A frame is the text of one WebSocket message; the model keeps  *)
(* what JSON.parse would yield: parsedMsg[0] (type), parsedMsg[1] (id),    *)
(* parsedMsg[2] (action) and the payload fields the handlers read.  seq    *)
(* numbers the frames the charger side sends, in the order it sends them   *)
(* (it stands for the rest of the text, which differs from frame to        *)
(* frame); frames generated by the proxy or the CSMS carry seq 0.          *)
(***************************************************************************)
EmptyPayload == [none |-> TRUE]

Frame(t, id, action, payload, seq) ==
    [type |-> t, id |-> id, action |-> action, payload |-> payload, seq |-> seq]

Call(id, action, payload) == Frame(2, id, action, payload, 0)

CallResult(id, payload) == Frame(3, id, "", payload, 0)

Uuid(n) == <<"uuid", n>>

VARIABLES
    CSMS_FORWARDING_ENABLED,  \* runtime config
    AUTO_CHARGE_ENABLED,      \* runtime config
    transactionIdCounter,     \* counter for offline transactions
    clients,                  \* the registry entry of the charge point: null or
                              \* the connection object (named by its closure)
    conn,                     \* the connection objects created by clients.set
    chargerSocket,            \* readyState of each upgrade's charger socket
    pc,                       \* where each closure's connection/close handler is
    csmsSocket,               \* each closure's variable `csmsSocket`
    sockets,                  \* the upstream sockets ever created
    timers,                   \* the reconnect timers ever armed
    ttlTimers,                \* armed 60 s timers of pendingIds entries
    tagTimers,                \* armed 60 s timers of pendingIdTags entries
    limitJob,                 \* each closure's persistent-limit task
    autoStart,                \* armed 100 ms auto-start timers, each with the
                              \* closure whose handler armed it
    smartJob,                 \* smart-charging requests awaiting their db write
    downJob,                  \* upstream frames awaiting their DOWNSTREAM log
    max_power,                \* chargers.max_power of the charge point
    status,                   \* chargers.status of the charge point
    log,                      \* the logs table (bag of records)
    chargerRx,                \* frames written to each charger socket, in order
    upstream,                 \* frames written to upstream sockets, in order,
                              \* each with the socket and the statement that
                              \* wrote it (direct send or buffer flush)
    sent,                     \* frames the charger side has sent, in order
    uuids,                    \* number of ids drawn so far
    csmsCalls,                \* number of Calls the CSMS has sent
    rest,                     \* responses of the REST API, in order
    statusJob                 \* status writes of log calls still in flight

vars == <<CSMS_FORWARDING_ENABLED, AUTO_CHARGE_ENABLED, transactionIdCounter,
          clients, conn, chargerSocket, pc, csmsSocket, sockets, timers,
          ttlTimers, tagTimers, limitJob, autoStart, smartJob, downJob,
          max_power, status, log, chargerRx, upstream, sent, uuids, csmsCalls,
          rest, statusJob>>

configVars == <<CSMS_FORWARDING_ENABLED, AUTO_CHARGE_ENABLED>>

(***************************************************************************)
(* Helpers.                                                                *)
(***************************************************************************)

\* The object stored by clients.set on connection.
NewConnection ==
    [csmsSocket |-> null, pendingIds |-> {}, pendingIdTags |-> {},
     messageBuffer |-> <<>>, reconnectAttempt |-> 0, reconnecting |-> FALSE,
     reconnectTimer |-> null]

\* db.logMessage: one row of the logs table.
LogRecord(direction, frame) == [direction |-> direction, payload |-> frame]

\* logMessage(cpId, direction, payload), applied to the logs table lg.
LogMessage(lg, direction, frame) == lg (+) SetToBag({LogRecord(direction, frame)})

\* Number of rows of the logs table lg with the given direction.
LogCount(lg, direction) ==
    BagCardinality([e \in {x \in BagToSet(lg) : x.direction = direction} |-> lg[e]])

\* The directions for which logMessage also marks the charger ONLINE.
OnlineDirections == {"UPSTREAM", "INJECTION_RESPONSE", "PROXY_RESPONSE"}

\* socket.send(frame) on a charger socket: ws drops the frame silently when the
\* socket is not OPEN (no callback is passed).
SendToCharger(rx, c, frame) ==
    IF chargerSocket[c] = "OPEN" THEN [rx EXCEPT ![c] = Append(@, frame)] ELSE rx

\* chargingSchedule with its single period.
ChargingSchedule(limit) ==
    [chargingRateUnit |-> "A",
     chargingSchedulePeriod |-> <<[startPeriod |-> 0, limit |-> limit]>>]

\* A profile with the id and the purpose of the session default; the code
\* builds a ChargePointMaxProfile with id 1.
MaxProfileAsTxDefault(limit) ==
    [connectorId |-> 0, chargingProfileId |-> 2, stackLevel |-> 1,
     chargingProfilePurpose |-> "TxDefaultProfile",
     chargingProfileKind |-> "Absolute",
     chargingSchedule |-> ChargingSchedule(limit)]

\* The SetChargingProfile payload built for a ChargePointMaxProfile limit.
MaxProfile(limit) ==
    [connectorId |-> 0, chargingProfileId |-> 1, stackLevel |-> 1,
     chargingProfilePurpose |-> "ChargePointMaxProfile",
     chargingProfileKind |-> "Absolute",
     chargingSchedule |-> ChargingSchedule(limit)]

\* A session profile that ignores the transaction; the code builds a
\* TxProfile when the request names one.
SessionProfileAlwaysDefault(limit, transactionId) ==
    [connectorId |-> 0, chargingProfileId |-> 2, stackLevel |-> 1,
     chargingProfilePurpose |-> "TxDefaultProfile",
     chargingProfileKind |-> "Absolute",
     chargingSchedule |-> ChargingSchedule(limit)]

\* The SetChargingProfile payload built for a session limit.
SessionProfile(limit, transactionId) ==
    IF transactionId # null
    THEN [connectorId |-> 0, chargingProfileId |-> 2, stackLevel |-> 1,
          chargingProfilePurpose |-> "TxProfile",
          chargingProfileKind |-> "Absolute", transactionId |-> transactionId,
          chargingSchedule |-> ChargingSchedule(limit)]
    ELSE [connectorId |-> 0, chargingProfileId |-> 2, stackLevel |-> 1,
          chargingProfilePurpose |-> "TxDefaultProfile",
          chargingProfileKind |-> "Absolute",
          chargingSchedule |-> ChargingSchedule(limit)]

\* payload?.field, "undefined" when the payload has no such field.
Field(payload, f) == IF f \in DOMAIN payload THEN payload[f] ELSE "undefined"

\* The part of the state connectToCsms and scheduleReconnect work on.
Heap == [conn |-> conn, sockets |-> sockets, csmsSocket |-> csmsSocket,
         timers |-> timers]

\* connectToCsms(isReconnect) of closure c; cl is clients.get(chargePointId).
ConnectToCsms(h, c, isReconnect, cl) ==
    IF ~CSMS_FORWARDING_ENABLED \/ cl = null THEN h
    ELSE LET attempt == IF isReconnect THEN h.conn[cl].reconnectAttempt + 1 ELSE 1
             s == Len(h.sockets) + 1
         IN [h EXCEPT !.conn[cl].reconnectAttempt = attempt,
                      !.conn[cl].reconnecting = TRUE,
                      !.conn[cl].csmsSocket = s,
                      !.csmsSocket[c] = s,
                      !.sockets = Append(@, [readyState |-> "CONNECTING",
                                             owner |-> c, connection |-> cl,
                                             opened |-> FALSE])]

\* A backoff that grows linearly; the code doubles the delay with every
\* attempt.
ScheduleReconnectLinear(h, c, cl) ==
    IF cl = null THEN h
    ELSE IF h.conn[cl].reconnectAttempt >= CSMS_RECONNECT_MAX_ATTEMPTS
         THEN [h EXCEPT !.conn[cl].reconnecting = FALSE]
         ELSE LET t == Len(h.timers) + 1
              IN [h EXCEPT !.timers = Append(@,
                              [owner |-> c, state |-> "armed",
                               delay |-> CSMS_RECONNECT_BASE_DELAY
                                           * (h.conn[cl].reconnectAttempt + 1)]),
                           !.conn[cl].reconnectTimer = t]

\* scheduleReconnect() of closure c; cl is clients.get(chargePointId).
ScheduleReconnect(h, c, cl) ==
    IF cl = null THEN h
    ELSE IF h.conn[cl].reconnectAttempt >= CSMS_RECONNECT_MAX_ATTEMPTS
         THEN [h EXCEPT !.conn[cl].reconnecting = FALSE]
         ELSE LET t == Len(h.timers) + 1
              IN [h EXCEPT !.timers = Append(@,
                              [owner |-> c, state |-> "armed",
                               delay |-> CSMS_RECONNECT_BASE_DELAY
                                           * 2 ^ h.conn[cl].reconnectAttempt]),
                           !.conn[cl].reconnectTimer = t]

SetHeap(h) ==
    /\ conn' = h.conn
    /\ sockets' = h.sockets
    /\ csmsSocket' = h.csmsSocket
    /\ timers' = h.timers

\* Frames of a given type the charger side has sent so far.
NumSent(types) == Cardinality({i \in DOMAIN sent : sent[i].frame.type \in types})

\* Ids of the Calls written to charger socket c.
CallsReceived(c) ==
    {chargerRx[c][i].id : i \in {j \in DOMAIN chargerRx[c] : chargerRx[c][j].type = 2}}

(***************************************************************************)
(* Initial state: the server has started, no charger is connected.         *)
(***************************************************************************)
InitCommon ==
    /\ AUTO_CHARGE_ENABLED \in BOOLEAN
    /\ transactionIdCounter = 100000
    /\ clients = null
    /\ conn = [c \in Conns |-> NewConnection]
    /\ chargerSocket = [c \in Conns |-> "NONE"]
    /\ pc = [c \in Conns |-> "idle"]
    /\ csmsSocket = [c \in Conns |-> null]
    /\ sockets = <<>>
    /\ timers = <<>>
    /\ ttlTimers = {}
    /\ tagTimers = EmptyBag
    /\ limitJob = [c \in Conns |-> [stage |-> "none", id |-> Uuid(0), limit |-> null]]
    /\ autoStart = EmptyBag
    /\ smartJob = {}
    /\ downJob = {}
    /\ status = "OFFLINE"
    /\ log = EmptyBag
    /\ chargerRx = [c \in Conns |-> <<>>]
    /\ upstream = <<>>
    /\ sent = <<>>
    /\ uuids = 0
    /\ csmsCalls = 0
    /\ rest = <<>>
    /\ statusJob = 0

Init ==
    /\ InitCommon
    /\ CSMS_FORWARDING_ENABLED \in BOOLEAN
    /\ max_power \in {null, 16}

(***************************************************************************)
(* wss.on('connection'): the upgrade, then (after the awaited               *)
(* db.updateChargerStatus) the registration of the session.                *)
(***************************************************************************)
Upgrade(c) ==
    /\ pc[c] = "idle"
    /\ \A d \in Conns : d < c => pc[d] # "idle"
    /\ pc' = [pc EXCEPT ![c] = "await_online"]
    /\ chargerSocket' = [chargerSocket EXCEPT ![c] = "OPEN"]
    /\ UNCHANGED <<configVars, statusJob, rest, transactionIdCounter, clients, conn, csmsSocket,
                   sockets, timers, ttlTimers, tagTimers, limitJob, autoStart,
                   smartJob, downJob, max_power, status, log, chargerRx,
                   upstream, sent, uuids, csmsCalls>>

Register(c) ==
    /\ pc[c] = "await_online"
    /\ CSMS_FORWARDING_ENABLED => Len(sockets) < MaxSockets
    /\ status' = "ONLINE"
    /\ clients' = c
    /\ SetHeap(ConnectToCsms([Heap EXCEPT !.conn[c] = NewConnection], c, FALSE, c))
    /\ limitJob' = [limitJob EXCEPT ![c].stage = "query"]
    /\ pc' = [pc EXCEPT ![c] = "live"]
    /\ UNCHANGED <<configVars, statusJob, rest, transactionIdCounter, chargerSocket, ttlTimers,
                   tagTimers, autoStart, smartJob, downJob, max_power, log,
                   chargerRx, upstream, sent, uuids, csmsCalls>>

\* connectToCsms(isReconnect) of closure c when `new WebSocket` throws: the
\* counters are already written, the catch block rejects the promise, the
\* caller's .catch logs; no socket exists, so no 'close' event will follow.
ConnectToCsmsThrows(h, c, isReconnect, cl) ==
    IF ~CSMS_FORWARDING_ENABLED \/ cl = null THEN h
    ELSE LET attempt == IF isReconnect THEN h.conn[cl].reconnectAttempt + 1 ELSE 1
         IN [h EXCEPT !.conn[cl].reconnectAttempt = attempt,
                      !.conn[cl].reconnecting = TRUE]

\* The connection handler when the initial `new WebSocket` throws.
RegisterConnectFails(c) ==
    /\ pc[c] = "await_online"
    /\ CSMS_FORWARDING_ENABLED
    /\ status' = "ONLINE"
    /\ clients' = c
    /\ SetHeap(ConnectToCsmsThrows([Heap EXCEPT !.conn[c] = NewConnection],
                                   c, FALSE, c))
    /\ limitJob' = [limitJob EXCEPT ![c].stage = "query"]
    /\ pc' = [pc EXCEPT ![c] = "live"]
    /\ UNCHANGED <<configVars, statusJob, rest, transactionIdCounter, chargerSocket, ttlTimers,
                   tagTimers, autoStart, smartJob, downJob, max_power, log,
                   chargerRx, upstream, sent, uuids, csmsCalls>>

(***************************************************************************)
(* Smart Charging Persistent Logic (on connection): db.getCharger          *)
(* resolves, then the 500 ms timer fires.                                  *)
(***************************************************************************)
LimitQuery(c) ==
    /\ limitJob[c].stage = "query"
    /\ IF max_power # null
       THEN /\ uuids < MaxUuids
            /\ uuids' = uuids + 1
            /\ limitJob' = [limitJob EXCEPT ![c] =
                   [stage |-> "timer", id |-> Uuid(uuids + 1), limit |-> max_power]]
       ELSE /\ limitJob' = [limitJob EXCEPT ![c].stage = "done"]
            /\ UNCHANGED uuids
    /\ UNCHANGED <<configVars, statusJob, rest, transactionIdCounter, clients, conn, chargerSocket,
                   pc, csmsSocket, sockets, timers, ttlTimers, tagTimers,
                   autoStart, smartJob, downJob, max_power, status, log,
                   chargerRx, upstream, sent, csmsCalls>>

LimitTimer(c) ==
    /\ limitJob[c].stage = "timer"
    /\ limitJob' = [limitJob EXCEPT ![c].stage = "done"]
    /\ LET payload == Call(limitJob[c].id, "SetChargingProfile",
                           MaxProfile(limitJob[c].limit))
       IN IF chargerSocket[c] = "OPEN"
          THEN /\ chargerRx' = SendToCharger(chargerRx, c, payload)
               /\ log' = LogMessage(log, "INJECTION_REQUEST", payload)
          ELSE UNCHANGED <<chargerRx, log>>
    /\ UNCHANGED <<configVars, statusJob, rest, transactionIdCounter, clients, conn, chargerSocket,
                   pc, csmsSocket, sockets, timers, ttlTimers, tagTimers,
                   autoStart, smartJob, downJob, max_power, status, upstream,
                   sent, uuids, csmsCalls>>

(***************************************************************************)
(* REST API.  Every request handled appends its response to rest.          *)
(***************************************************************************)

\* One request (its endpoint and body) with res.status(code).json(...);
\* messageId is Uuid(0) when the response carries none.
Response(request, body, code, messageId) ==
    [request |-> request, body |-> body, status |-> code, messageId |-> messageId]

\* A request body without the field `payload`.
NoPayload == [undefined |-> TRUE]

\* A test that never tracks the idTag; the code tracks it for
\* RemoteStartTransaction.
TrackIdTagNever(action, payload) == FALSE

\* action === 'RemoteStartTransaction' && payload.idTag
TrackIdTag(action, payload) ==
    action = "RemoteStartTransaction"
        /\ Field(payload, "idTag") \notin {"undefined", ""}

\* A test that looks at the registry only; the code also tests the readyState
\* of the charger socket.
NoRegistryEntry == clients = null

\* !connection || !connection.chargerSocket ||
\* connection.chargerSocket.readyState !== WebSocket.OPEN
ChargerNotConnected ==
    IF clients = null THEN TRUE ELSE chargerSocket[clients] # "OPEN"

(***************************************************************************)
(* REST: POST /api/inject/:cpId.                                           *)
(***************************************************************************)

\* The early return: 503 'Charger not connected'.
InjectRejected(action, payload) ==
    /\ ChargerNotConnected
    /\ Len(rest) < MaxRequests
    /\ rest' = Append(rest, Response("inject", [action |-> action, payload |-> payload],
                                     503, Uuid(0)))
    /\ UNCHANGED <<configVars, statusJob, transactionIdCounter, clients, conn, chargerSocket,
                   pc, csmsSocket, sockets, timers, ttlTimers, tagTimers,
                   limitJob, autoStart, smartJob, downJob, max_power, status,
                   log, chargerRx, upstream, sent, uuids, csmsCalls>>

Inject(action, payload) ==
    /\ ~ChargerNotConnected
    /\ uuids < MaxUuids
    /\ LET r == clients
           messageId == Uuid(uuids + 1)
           ocppMessage == Call(messageId, action, payload)
           body == [action |-> action, payload |-> payload]
           track == TrackIdTag(action, payload)
       IN /\ uuids' = uuids + 1
          /\ IF action = "RemoteStartTransaction" /\ payload = NoPayload
             THEN \* payload.idTag throws a TypeError after pendingIds.add:
                  \* the catch block answers 500
                  /\ conn' = [conn EXCEPT ![r].pendingIds = @ \cup {messageId}]
                  /\ rest' = Append(rest, Response("inject", body, 500, Uuid(0)))
                  /\ UNCHANGED <<tagTimers, ttlTimers, chargerRx, log>>
             ELSE /\ conn' = [conn EXCEPT
                         ![r].pendingIds = @ \cup {messageId},
                         ![r].pendingIdTags =
                             IF track THEN @ \cup {payload.idTag} ELSE @]
                  /\ tagTimers' =
                         IF track
                         THEN tagTimers (+) SetToBag({[connection |-> r,
                                                       idTag |-> payload.idTag]})
                         ELSE tagTimers
                  /\ ttlTimers' = ttlTimers \cup {[connection |-> r, id |-> messageId]}
                  /\ chargerRx' = SendToCharger(chargerRx, r, ocppMessage)
                  /\ log' = LogMessage(log, "INJECTION_REQUEST", ocppMessage)
                  /\ rest' = Append(rest, Response("inject", body, 200, messageId))
    /\ UNCHANGED <<configVars, statusJob, transactionIdCounter, clients, chargerSocket, pc,
                   csmsSocket, sockets, timers, limitJob, autoStart, smartJob,
                   downJob, max_power, status, upstream, sent, csmsCalls>>

(***************************************************************************)
(* REST: POST /api/chargers/:cpId/smart-charging.  kind is "clear",        *)
(* "maxPower" or "sessionLimit" (or "invalid": none of the three fields).  *)
(* The first two await db.updateChargerLimit before the Call is built and  *)
(* sent; a session limit is sent at once.                                  *)
(***************************************************************************)

\* req.body of a request.
SmartChargingBody(kind, limit, transactionId) ==
    [kind |-> kind, limit |-> limit, transactionId |-> transactionId]

\* The Call built for a request.
SmartChargingMessage(messageId, kind, limit, transactionId) ==
    CASE kind = "clear" -> Call(messageId, "ClearChargingProfile", EmptyPayload)
      [] kind = "maxPower" -> Call(messageId, "SetChargingProfile", MaxProfile(limit))
      [] OTHER -> Call(messageId, "SetChargingProfile",
                       SessionProfile(limit, transactionId))

\* A send that does not track the id; the code adds it to pendingIds and arms
\* its timer.
SmartChargingInjectUntracked(r, body, ocppMessage) ==
    /\ uuids' = uuids + 1
    /\ chargerRx' = SendToCharger(chargerRx, r, ocppMessage)
    /\ log' = LogMessage(log, "INJECTION_REQUEST", ocppMessage)
    /\ rest' = Append(rest, Response("smart-charging", body, 200, ocppMessage.id))
    /\ UNCHANGED <<conn, ttlTimers>>

\* "Send the message": track the id, arm its TTL, write the Call to the
\* charger socket of the connection object r, log it and answer the request.
SmartChargingInject(r, body, ocppMessage) ==
    /\ uuids' = uuids + 1
    /\ conn' = [conn EXCEPT ![r].pendingIds = @ \cup {ocppMessage.id}]
    /\ ttlTimers' = ttlTimers \cup {[connection |-> r, id |-> ocppMessage.id]}
    /\ chargerRx' = SendToCharger(chargerRx, r, ocppMessage)
    /\ log' = LogMessage(log, "INJECTION_REQUEST", ocppMessage)
    /\ rest' = Append(rest, Response("smart-charging", body, 200, ocppMessage.id))

\* The early returns: 503 'Charger not connected', 400 'Invalid parameters'.
SmartChargingRejected(kind, limit, transactionId) ==
    /\ ChargerNotConnected \/ kind = "invalid"
    /\ Len(rest) < MaxRequests
    /\ rest' = Append(rest, Response("smart-charging",
                                     SmartChargingBody(kind, limit, transactionId),
                                     IF ChargerNotConnected THEN 503 ELSE 400,
                                     Uuid(0)))
    /\ UNCHANGED <<configVars, statusJob, transactionIdCounter, clients, conn, chargerSocket,
                   pc, csmsSocket, sockets, timers, ttlTimers, tagTimers,
                   limitJob, autoStart, smartJob, downJob, max_power, status,
                   log, chargerRx, upstream, sent, uuids, csmsCalls>>

SmartChargingRequest(kind, limit, transactionId) ==
    /\ ~ChargerNotConnected
    /\ kind \in {"clear", "maxPower", "sessionLimit"}
    /\ uuids < MaxUuids
    /\ IF kind = "sessionLimit"
       THEN /\ SmartChargingInject(clients,
                   SmartChargingBody(kind, limit, transactionId),
                   SmartChargingMessage(Uuid(uuids + 1), kind, limit, transactionId))
            /\ UNCHANGED smartJob
       ELSE /\ smartJob = {}
            /\ smartJob' = {[connection |-> clients,
                             body |-> SmartChargingBody(kind, limit, transactionId)]}
            /\ UNCHANGED <<conn, ttlTimers, log, chargerRx, uuids, rest>>
    /\ UNCHANGED <<configVars, statusJob, transactionIdCounter, clients, chargerSocket, pc,
                   csmsSocket, sockets, timers, tagTimers, limitJob, autoStart,
                   downJob, max_power, status, upstream, sent, csmsCalls>>

\* db.updateChargerLimit resolved: the row is written, the Call goes out.
SmartChargingSend(job) ==
    /\ job \in smartJob
    /\ uuids < MaxUuids
    /\ max_power' = IF job.body.kind = "clear" THEN null ELSE job.body.limit
    /\ SmartChargingInject(job.connection, job.body,
           SmartChargingMessage(Uuid(uuids + 1), job.body.kind, job.body.limit,
                                job.body.transactionId))
    /\ smartJob' = smartJob \ {job}
    /\ UNCHANGED <<configVars, statusJob, transactionIdCounter, clients, chargerSocket, pc,
                   csmsSocket, sockets, timers, tagTimers, limitJob, autoStart,
                   downJob, status, upstream, sent, csmsCalls>>

\* A catch block that answers 500 and sends the Call all the same; the code
\* sends nothing after a failed write.
SmartChargingFailButSend(job) ==
    /\ job \in smartJob
    /\ Len(rest) < MaxRequests
    /\ uuids < MaxUuids
    /\ smartJob' = smartJob \ {job}
    /\ uuids' = uuids + 1
    /\ conn' = [conn EXCEPT ![job.connection].pendingIds = @ \cup {Uuid(uuids + 1)}]
    /\ chargerRx' = SendToCharger(chargerRx, job.connection,
                        SmartChargingMessage(Uuid(uuids + 1), job.body.kind,
                                             job.body.limit, job.body.transactionId))
    /\ rest' = Append(rest, Response("smart-charging", job.body, 500, Uuid(0)))
    /\ UNCHANGED <<configVars, statusJob, transactionIdCounter, clients, chargerSocket,
                   pc, csmsSocket, sockets, timers, ttlTimers, tagTimers,
                   limitJob, autoStart, downJob, max_power, status, log,
                   upstream, sent, csmsCalls>>

\* db.updateChargerLimit rejected: the catch block answers 500.
SmartChargingFail(job) ==
    /\ job \in smartJob
    /\ Len(rest) < MaxRequests
    /\ smartJob' = smartJob \ {job}
    /\ rest' = Append(rest, Response("smart-charging", job.body, 500, Uuid(0)))
    /\ UNCHANGED <<configVars, statusJob, transactionIdCounter, clients, conn, chargerSocket,
                   pc, csmsSocket, sockets, timers, ttlTimers, tagTimers,
                   limitJob, autoStart, downJob, max_power, status, log,
                   chargerRx, upstream, sent, uuids, csmsCalls>>

(***************************************************************************)
(* The 60 s cleanup timers of pendingIds and pendingIdTags entries.        *)
(***************************************************************************)
TtlExpire(t) ==
    /\ t \in ttlTimers
    /\ ttlTimers' = ttlTimers \ {t}
    /\ conn' = [conn EXCEPT ![t.connection].pendingIds = @ \ {t.id}]
    /\ UNCHANGED <<configVars, statusJob, rest, transactionIdCounter, clients, chargerSocket, pc,
                   csmsSocket, sockets, timers, tagTimers, limitJob, autoStart,
                   smartJob, downJob, max_power, status, log, chargerRx,
                   upstream, sent, uuids, csmsCalls>>

TagTtlExpire(t) ==
    /\ BagIn(t, tagTimers)
    /\ tagTimers' = tagTimers (-) SetToBag({t})
    /\ conn' = [conn EXCEPT ![t.connection].pendingIdTags = @ \ {t.idTag}]
    /\ UNCHANGED <<configVars, statusJob, rest, transactionIdCounter, clients, chargerSocket, pc,
                   csmsSocket, sockets, timers, ttlTimers, limitJob, autoStart,
                   smartJob, downJob, max_power, status, log, chargerRx,
                   upstream, sent, uuids, csmsCalls>>

(***************************************************************************)
(* REST: POST /api/config (the two switches the mediator reads).  Each     *)
(* switch is assigned after its own awaited db.setConfigValue, so one step *)
(* changes one of them.                                                    *)
(***************************************************************************)
SetConfig(forwarding, autoCharge) ==
    /\ <<forwarding, autoCharge>> # <<CSMS_FORWARDING_ENABLED, AUTO_CHARGE_ENABLED>>
    /\ forwarding = CSMS_FORWARDING_ENABLED \/ autoCharge = AUTO_CHARGE_ENABLED
    /\ CSMS_FORWARDING_ENABLED' = forwarding
    /\ AUTO_CHARGE_ENABLED' = autoCharge
    /\ UNCHANGED <<statusJob, transactionIdCounter, clients, conn, chargerSocket, pc,
                   csmsSocket, sockets, timers, ttlTimers, tagTimers, limitJob,
                   autoStart, smartJob, downJob, max_power, status, log,
                   chargerRx, upstream, sent, uuids, csmsCalls, rest>>

(***************************************************************************)
(* chargerSocket.on('message'): the charger-to-upstream forwarding rule.   *)
(***************************************************************************)

\* An Authorize decision that looks at the auto-charge switch only; the code
\* also accepts a tag that is in pendingIdTags.
AuthorizeStatusAutoOnly(msg, cl) ==
    IF AUTO_CHARGE_ENABLED THEN "Accepted" ELSE "Invalid"

\* case 'Authorize': idTagInfo.status of the synthesized response.  cl is
\* clients.get(chargePointId).
AuthorizeStatus(msg, cl) ==
    LET isPendingIdTag ==
            cl # null /\ Field(msg.payload, "idTag") \in conn[cl].pendingIdTags
    IN IF AUTO_CHARGE_ENABLED \/ isPendingIdTag THEN "Accepted" ELSE "Invalid"

\* A responder without the MeterValues case; the code acknowledges
\* MeterValues with an empty CallResult.
ProxyResponseNoMeterValues(msg, cl) ==
    CASE msg.action = "BootNotification" ->
             <<CallResult(msg.id, [status |-> "Accepted", interval |-> 300])>>
      [] msg.action = "Heartbeat" ->
             <<CallResult(msg.id, [currentTime |-> "now"])>>
      [] msg.action = "Authorize" ->
             <<CallResult(msg.id, [idTagInfo |-> AuthorizeStatus(msg, cl)])>>
      [] msg.action = "StatusNotification" ->
             <<CallResult(msg.id, EmptyPayload)>>
      [] msg.action = "StartTransaction" ->
             <<CallResult(msg.id, [transactionId |-> transactionIdCounter,
                                   idTagInfo |-> "Accepted"])>>
      [] msg.action = "StopTransaction" ->
             <<CallResult(msg.id, [idTagInfo |-> "Accepted"])>>
      [] OTHER -> <<>>

\* switch (action) of the standalone responder: <<proxyResponse>>, or <<>> when
\* proxyResponse stays null.  cl is clients.get(chargePointId).
ProxyResponse(msg, cl) ==
    CASE msg.action = "BootNotification" ->
             <<CallResult(msg.id, [status |-> "Accepted", interval |-> 300])>>
      [] msg.action = "Heartbeat" ->
             <<CallResult(msg.id, [currentTime |-> "now"])>>
      [] msg.action = "Authorize" ->
             <<CallResult(msg.id, [idTagInfo |-> AuthorizeStatus(msg, cl)])>>
      [] msg.action = "StatusNotification" ->
             <<CallResult(msg.id, EmptyPayload)>>
      [] msg.action = "MeterValues" ->
             <<CallResult(msg.id, EmptyPayload)>>
      [] msg.action = "StartTransaction" ->
             <<CallResult(msg.id, [transactionId |-> transactionIdCounter,
                                   idTagInfo |-> "Accepted"])>>
      [] msg.action = "StopTransaction" ->
             <<CallResult(msg.id, [idTagInfo |-> "Accepted"])>>
      [] OTHER -> <<>>

\* A counter that is read but not advanced; the code post-increments it.
SameTransactionId(counter) == counter

\* transactionIdCounter++ : the value of the counter after the response
\* was built.
NextTransactionId(counter) == counter + 1

\* parsedMsg[3]?.connectorId || 1
AutoStartConnector(payload) ==
    IF "connectorId" \notin DOMAIN payload THEN 1
    ELSE IF payload.connectorId = 0 THEN 1 ELSE payload.connectorId

\* An interception test that looks at CallResult frames only; the code also
\* tests for CallError (parsedMsg[0] === 4).
InterceptedResultOnly(msg, cl) ==
    /\ msg.type = 3
    /\ cl # null
    /\ msg.id \in conn[cl].pendingIds

\* A Result/Error whose id is in pendingIds: the response is swallowed.
Intercepted(msg, cl) ==
    /\ msg.type \in {3, 4}
    /\ cl # null
    /\ msg.id \in conn[cl].pendingIds

\* A test that takes every socket that is not CONNECTING for unavailable; the
\* code takes an OPEN socket for available.
CsmsUnavailableUnlessConnecting(s) ==
    s = null \/ sockets[s].readyState # "CONNECTING"

\* csmsUnavailable, for the closure variable value s.
CsmsUnavailable(s) ==
    s = null \/ sockets[s].readyState \in {"CLOSING", "CLOSED"}

\* The first branch of the Call handling: buffer while reconnecting.
BufferWhileReconnecting(msg, cl, s) ==
    /\ msg.type = 2
    /\ CsmsUnavailable(s)
    /\ cl # null
    /\ conn[cl].reconnecting
    /\ conn[cl].reconnectAttempt < CSMS_RECONNECT_MAX_ATTEMPTS

\* A responder entered by a plain `if (csmsUnavailable)` instead of the
\* `else if` of the buffering branch; the code does not do this.
StandaloneAlsoWhenBuffered(msg, cl, s) ==
    /\ msg.type = 2
    /\ CsmsUnavailable(s)

\* The second branch: the standalone responder runs.
Standalone(msg, cl, s) ==
    /\ msg.type = 2
    /\ CsmsUnavailable(s)
    /\ ~BufferWhileReconnecting(msg, cl, s)

\* The body of ws.on('message'). The handler does not await logMessage, and
\* logMessage writes the status ONLINE only after its insert has returned
\* (1069-1080): with prompt the write lands before anything else happens,
\* without it the write stays in flight (StatusWrite lands it).
ChargerHandle(c, msg, prompt) ==
    /\ pc[c] = "live"
    /\ chargerSocket[c] = "OPEN"
    /\ msg.seq = Len(sent) + 1
    /\ LET cl == clients
           s == csmsSocket[c]
           intercepted == Intercepted(msg, cl)
           buffering == BufferWhileReconnecting(msg, cl, s)
           standalone == Standalone(msg, cl, s)
           proxyResponse == IF standalone THEN ProxyResponse(msg, cl) ELSE <<>>
           answered == proxyResponse # <<>>
           shouldForward == ~intercepted /\ ~buffering /\ ~answered
           sendUp == shouldForward /\ s # null /\ sockets[s].readyState = "OPEN"
           bufferUp == /\ shouldForward
                       /\ s # null
                       /\ sockets[s].readyState = "CONNECTING"
                       /\ cl # null
           consumeTag == /\ standalone
                         /\ msg.action = "Authorize"
                         /\ cl # null
                         /\ Field(msg.payload, "idTag") \in conn[cl].pendingIdTags
           startTimer == /\ standalone
                         /\ msg.action = "StatusNotification"
                         /\ AUTO_CHARGE_ENABLED
                         /\ Field(msg.payload, "status") = "Preparing"
           log1 == IF intercepted
                   THEN LogMessage(log, "INJECTION_RESPONSE", msg) ELSE log
           log2 == IF answered
                   THEN LogMessage(LogMessage(log1, "UPSTREAM", msg),
                                   "PROXY_RESPONSE", proxyResponse[1])
                   ELSE log1
       IN /\ conn' = IF cl = null THEN conn
                     ELSE [conn EXCEPT
                             ![cl].pendingIds =
                                 IF intercepted THEN @ \ {msg.id} ELSE @,
                             ![cl].pendingIdTags =
                                 IF consumeTag THEN @ \ {msg.payload.idTag} ELSE @,
                             ![cl].messageBuffer =
                                 IF buffering \/ bufferUp THEN Append(@, msg) ELSE @]
          /\ log' = IF shouldForward THEN LogMessage(log2, "UPSTREAM", msg) ELSE log2
          /\ status' = IF prompt /\ (intercepted \/ answered \/ shouldForward)
                       THEN "ONLINE" ELSE status
          /\ statusJob' = IF ~prompt /\ (intercepted \/ answered \/ shouldForward)
                          THEN statusJob + 1 ELSE statusJob
          /\ chargerRx' = IF answered
                          THEN SendToCharger(chargerRx, c, proxyResponse[1])
                          ELSE chargerRx
          /\ upstream' = IF sendUp
                         THEN Append(upstream, [sock |-> s, frame |-> msg,
                                                via |-> "send"])
                         ELSE upstream
          /\ autoStart' = IF startTimer
                          THEN autoStart (+) SetToBag({[owner |-> c, connectorId |->
                                              AutoStartConnector(msg.payload)]})
                          ELSE autoStart
          /\ transactionIdCounter' =
                 IF standalone /\ msg.action = "StartTransaction"
                 THEN NextTransactionId(transactionIdCounter)
                 ELSE transactionIdCounter
    /\ sent' = Append(sent, [from |-> c, frame |-> msg])
    /\ UNCHANGED <<configVars, rest, clients, chargerSocket, pc, csmsSocket, sockets,
                   timers, ttlTimers, tagTimers, limitJob, smartJob, downJob,
                   max_power, uuids, csmsCalls>>

\* ws.on('message') with the log writes of the frame landing at once.
ChargerMessage(c, msg) == ChargerHandle(c, msg, TRUE)

\* The charger side sends a Call with a message id of its own.
ChargerCall(c, action, payload) ==
    /\ NumSent({2}) < MaxCalls
    /\ ChargerMessage(c, Frame(2, <<"m", NumSent({2}) + 1>>, action, payload,
                               Len(sent) + 1))

\* The charger side sends a Call whose log writes stay in flight.
ChargerCallSlowLog(c, action, payload) ==
    /\ NumSent({2}) < MaxCalls
    /\ ChargerHandle(c, Frame(2, <<"m", NumSent({2}) + 1>>, action, payload,
                              Len(sent) + 1), FALSE)

\* An in-flight logMessage gets its insert back and writes the status:
\* await db.updateChargerStatus(chargePointId, 'ONLINE').
StatusWrite ==
    /\ statusJob > 0
    /\ statusJob' = statusJob - 1
    /\ status' = "ONLINE"
    /\ UNCHANGED <<configVars, rest, transactionIdCounter, clients, conn,
                   chargerSocket, pc, csmsSocket, sockets, timers, ttlTimers,
                   tagTimers, limitJob, autoStart, smartJob, downJob, max_power,
                   log, chargerRx, upstream, sent, uuids, csmsCalls>>

\* A frame arrives on charger socket c while the connection handler still
\* awaits db.updateChargerStatus (561): chargerSocket.on('message') (820) is
\* not registered yet, ws emits 'message' to no listener, and the frame is
\* gone.
ChargerMessageUnheard(c, msg) ==
    /\ pc[c] = "await_online"
    /\ chargerSocket[c] = "OPEN"
    /\ msg.seq = Len(sent) + 1
    /\ sent' = Append(sent, [from |-> c, frame |-> msg])
    /\ UNCHANGED <<configVars, statusJob, rest, transactionIdCounter, clients, conn,
                   chargerSocket, pc, csmsSocket, sockets, timers, ttlTimers,
                   tagTimers, limitJob, autoStart, smartJob, downJob, max_power,
                   status, log, chargerRx, upstream, uuids, csmsCalls>>

\* The charger side sends a Call right after the upgrade.
ChargerCallEarly(c, action, payload) ==
    /\ NumSent({2}) < MaxCalls
    /\ ChargerMessageUnheard(c, Frame(2, <<"m", NumSent({2}) + 1>>, action, payload,
                                      Len(sent) + 1))

\* The charger side keeps sending Heartbeat Calls.
FloodCall(c) ==
    /\ Len(sent) < MaxFlood
    /\ ChargerMessage(c, Frame(2, <<"m", Len(sent) + 1>>, "Heartbeat", EmptyPayload,
                               Len(sent) + 1))

\* What the handler's tests see of a frame that is no OCPP frame: text that
\* JSON.parse rejects (-1: parsedMsg stays null), JSON that is no array (0:
\* Array.isArray fails), an array whose first element is 9.
MalformedTypes == {-1, 0, 9}

\* The charger side sends a frame that is no OCPP frame.
ChargerMalformed(c, t) ==
    /\ t \in MalformedTypes
    /\ NumSent(MalformedTypes) < MaxMalformed
    /\ ChargerMessage(c, Frame(t, <<"m", 0>>, "", EmptyPayload, Len(sent) + 1))

\* The charger side answers (with a CallResult or a CallError) a Call it received.
ChargerResult(c, t, id) ==
    /\ NumSent({3, 4}) < MaxResults
    /\ id \in CallsReceived(c)
    /\ ChargerMessage(c, Frame(t, id, "", EmptyPayload, Len(sent) + 1))

(***************************************************************************)
(* The 100 ms auto-start timer armed by the standalone responder.          *)
(***************************************************************************)
AutoStartFire(t) ==
    /\ BagIn(t, autoStart)
    /\ uuids < MaxUuids
    /\ autoStart' = autoStart (-) SetToBag({t})
    /\ uuids' = uuids + 1
    /\ LET startMessageId == Uuid(uuids + 1)
           startMessage == Call(startMessageId, "RemoteStartTransaction",
                                [connectorId |-> t.connectorId,
                                 idTag |-> "DEFAULT_ID_TAG"])
           connection == clients
       IN IF connection # null /\ chargerSocket[connection] = "OPEN"
          THEN /\ conn' = [conn EXCEPT
                             ![connection].pendingIds = @ \cup {startMessageId}]
               /\ ttlTimers' = ttlTimers \cup {[connection |-> connection,
                                                id |-> startMessageId]}
               /\ chargerRx' = SendToCharger(chargerRx, connection, startMessage)
               /\ log' = LogMessage(log, "INJECTION_REQUEST", startMessage)
          ELSE UNCHANGED <<conn, ttlTimers, chargerRx, log>>
    /\ UNCHANGED <<configVars, statusJob, rest, transactionIdCounter, clients, chargerSocket, pc,
                   csmsSocket, sockets, timers, tagTimers, limitJob, smartJob,
                   downJob, max_power, status, upstream, sent, csmsCalls>>

(***************************************************************************)
(* Upstream socket events (handlers installed by connectToCsms).           *)
(***************************************************************************)

\* A flush that writes the newest buffered frame first (the buffer read as a
\* stack); the code does not do this.
FlushBufferReversed(buffer, target) ==
    [i \in 1..Len(buffer) |-> [sock |-> target, frame |-> buffer[Len(buffer) + 1 - i],
                               via |-> "flush"]]

\* connection.messageBuffer.forEach(msg => csmsSocket.send(msg)): the writes
\* to the upstream socket target, in the order of the buffer.
FlushBuffer(buffer, target) ==
    [i \in 1..Len(buffer) |-> [sock |-> target, frame |-> buffer[i],
                               via |-> "flush"]]

\* csmsSocket.on('open'): the handshake of socket s succeeded.
CsmsOpen(s) ==
    /\ s \in DOMAIN sockets
    /\ sockets[s].readyState = "CONNECTING"
    /\ LET connection == sockets[s].connection
           target == csmsSocket[sockets[s].owner]
           opened == [sockets EXCEPT ![s].readyState = "OPEN", ![s].opened = TRUE]
           buffer == conn[connection].messageBuffer
           flushed == IF opened[target].readyState = "OPEN" THEN buffer ELSE <<>>
       IN /\ sockets' = opened
          /\ conn' = [conn EXCEPT ![connection].reconnectAttempt = 0,
                                  ![connection].reconnecting = FALSE,
                                  ![connection].messageBuffer = <<>>]
          /\ upstream' = upstream \o FlushBuffer(flushed, target)
    /\ UNCHANGED <<configVars, statusJob, rest, transactionIdCounter, clients, chargerSocket, pc,
                   csmsSocket, timers, ttlTimers, tagTimers, limitJob, autoStart,
                   smartJob, downJob, max_power, status, log, chargerRx, sent,
                   uuids, csmsCalls>>

\* The handshake is aborted or a close starts: readyState becomes CLOSING
\* (the 'error' handler only logs) and the 'close' event follows later.
CsmsClosing(s) ==
    /\ s \in DOMAIN sockets
    /\ sockets[s].readyState \in {"CONNECTING", "OPEN"}
    /\ sockets' = [sockets EXCEPT ![s].readyState = "CLOSING"]
    /\ UNCHANGED <<configVars, statusJob, rest, transactionIdCounter, clients, conn, chargerSocket,
                   pc, csmsSocket, timers, ttlTimers, tagTimers, limitJob,
                   autoStart, smartJob, downJob, max_power, status, log,
                   chargerRx, upstream, sent, uuids, csmsCalls>>

\* csmsSocket.on('close') of socket s.
CsmsClose(s) ==
    /\ s \in DOMAIN sockets
    /\ sockets[s].readyState # "CLOSED"
    /\ LET c == sockets[s].owner
           cl == clients
           h0 == [Heap EXCEPT !.sockets[s].readyState = "CLOSED"]
       IN IF cl # null /\ conn[cl].csmsSocket = csmsSocket[c]
          THEN LET h1 == [h0 EXCEPT !.conn[cl].csmsSocket = null]
               IN IF chargerSocket[c] = "OPEN" /\ CSMS_FORWARDING_ENABLED
                  THEN SetHeap(ScheduleReconnect(h1, c, cl))
                  ELSE SetHeap(h1)
          ELSE SetHeap(h0)
    /\ UNCHANGED <<configVars, statusJob, rest, transactionIdCounter, clients, chargerSocket, pc,
                   ttlTimers, tagTimers, limitJob, autoStart, smartJob, downJob,
                   max_power, status, log, chargerRx, upstream, sent, uuids,
                   csmsCalls>>

\* The callback of reconnect timer t (armed by scheduleReconnect) runs.
ReconnectTimerFire(t) ==
    /\ t \in DOMAIN timers
    /\ timers[t].state = "armed"
    /\ LET c == timers[t].owner
           cl == clients
           h0 == [Heap EXCEPT !.timers[t].state = "fired"]
       IN IF cl # null /\ chargerSocket[c] = "OPEN"
          THEN /\ CSMS_FORWARDING_ENABLED => Len(sockets) < MaxSockets
               /\ SetHeap(ConnectToCsms(h0, c, TRUE, cl))
          ELSE SetHeap(h0)
    /\ UNCHANGED <<configVars, statusJob, rest, transactionIdCounter, clients, chargerSocket, pc,
                   ttlTimers, tagTimers, limitJob, autoStart, smartJob, downJob,
                   max_power, status, log, chargerRx, upstream, sent, uuids,
                   csmsCalls>>

(***************************************************************************)
(* csmsSocket.on('message'): the upstream-to-charger direction.  The       *)
(* handler awaits the DOWNSTREAM log before it writes to the charger.      *)
(***************************************************************************)
CsmsMessage(s, msg) ==
    /\ s \in DOMAIN sockets
    /\ sockets[s].readyState = "OPEN"
    /\ log' = LogMessage(log, "DOWNSTREAM", msg)
    /\ downJob' = downJob \cup {[owner |-> sockets[s].owner, frame |-> msg]}
    /\ UNCHANGED <<configVars, statusJob, rest, transactionIdCounter, clients, conn, chargerSocket,
                   pc, csmsSocket, sockets, timers, ttlTimers, tagTimers,
                   limitJob, autoStart, smartJob, max_power, status, chargerRx,
                   upstream, sent, uuids>>

\* The CSMS sends a Call with a message id of its own.
CsmsCall(s, action) ==
    /\ csmsCalls < MaxCsmsCalls
    /\ csmsCalls' = csmsCalls + 1
    /\ CsmsMessage(s, Call(<<"csms", csmsCalls + 1>>, action, EmptyPayload))

\* The CSMS answers a Call that was relayed to it on socket s.  seq numbers
\* the frames the proxy receives from upstream in the order of their arrival
\* (each arrival starts one DOWNSTREAM log write).
CsmsResult(s, id) ==
    /\ \E i \in DOMAIN upstream :
          upstream[i].sock = s /\ upstream[i].frame.type = 2
                               /\ upstream[i].frame.id = id
    /\ \A e \in BagToSet(log) :
          e.direction = "DOWNSTREAM" => e.payload.id # id
    /\ CsmsMessage(s, Frame(3, id, "", EmptyPayload,
                            LogCount(log, "DOWNSTREAM") + 1))
    /\ UNCHANGED csmsCalls

\* The awaited log write of a downstream frame returns: relay or drop.
DownstreamRelay(job) ==
    /\ job \in downJob
    /\ downJob' = downJob \ {job}
    /\ chargerRx' = SendToCharger(chargerRx, job.owner, job.frame)
    /\ UNCHANGED <<configVars, statusJob, rest, transactionIdCounter, clients, conn, chargerSocket,
                   pc, csmsSocket, sockets, timers, ttlTimers, tagTimers,
                   limitJob, autoStart, smartJob, max_power, status, log,
                   upstream, sent, uuids, csmsCalls>>

(***************************************************************************)
(* chargerSocket.on('close'): the charger socket closes; the handler       *)
(* awaits db.updateChargerStatus(OFFLINE) and then cleans up.              *)
(***************************************************************************)
ChargerClose(c) ==
    /\ chargerSocket[c] = "OPEN"
    /\ chargerSocket' = [chargerSocket EXCEPT ![c] = "CLOSED"]
    /\ pc' = IF pc[c] = "live" THEN [pc EXCEPT ![c] = "await_offline"] ELSE pc
    /\ UNCHANGED <<configVars, statusJob, rest, transactionIdCounter, clients, conn, csmsSocket,
                   sockets, timers, ttlTimers, tagTimers, limitJob, autoStart,
                   smartJob, downJob, max_power, status, log, chargerRx,
                   upstream, sent, uuids, csmsCalls>>

ChargerCloseCleanup(c) ==
    /\ pc[c] = "await_offline"
    /\ pc' = [pc EXCEPT ![c] = "done"]
    /\ status' = "OFFLINE"
    /\ LET connection == clients
       IN IF connection # null
          THEN LET t == conn[connection].reconnectTimer
                   s == conn[connection].csmsSocket
               IN /\ timers' = IF t # null /\ timers[t].state = "armed"
                               THEN [timers EXCEPT ![t].state = "cleared"]
                               ELSE timers
                  /\ sockets' = IF s # null
                                   /\ sockets[s].readyState \in {"CONNECTING", "OPEN"}
                                THEN [sockets EXCEPT ![s].readyState = "CLOSING"]
                                ELSE sockets
                  /\ conn' = [conn EXCEPT ![connection].reconnectTimer = null,
                                          ![connection].csmsSocket = null]
          ELSE UNCHANGED <<timers, sockets, conn>>
    /\ clients' = null
    /\ UNCHANGED <<configVars, statusJob, rest, transactionIdCounter, chargerSocket, csmsSocket,
                   ttlTimers, tagTimers, limitJob, autoStart, smartJob, downJob,
                   max_power, log, chargerRx, upstream, sent, uuids, csmsCalls>>

(***************************************************************************)
(* Inputs and specifications.                                              *)
(***************************************************************************)

\* Calls the charger side may send.
Heartbeat == [action |-> "Heartbeat", payload |-> EmptyPayload]
Preparing == [action |-> "StatusNotification",
              payload |-> [connectorId |-> 1, status |-> "Preparing"]]
Available == [action |-> "StatusNotification",
              payload |-> [connectorId |-> 1, status |-> "Available"]]
DataTransfer == [action |-> "DataTransfer", payload |-> EmptyPayload]

Authorize == [action |-> "Authorize", payload |-> [idTag |-> "TAG"]]
StartTransaction == [action |-> "StartTransaction",
                     payload |-> [connectorId |-> 1, idTag |-> "TAG"]]

\* Commands an operator may inject.
Reset == [action |-> "Reset", payload |-> EmptyPayload]
RemoteStart == [action |-> "RemoteStartTransaction",
                payload |-> [connectorId |-> 1, idTag |-> "TAG"]]
RemoteStartNoPayload == [action |-> "RemoteStartTransaction", payload |-> NoPayload]

Next ==
    \/ \E c \in Conns : Upgrade(c)
    \/ \E c \in Conns : Register(c)
    \/ \E c \in Conns : LimitQuery(c)
    \/ \E c \in Conns : LimitTimer(c)
    \/ \E i \in {Reset} : InjectRejected(i.action, i.payload)
    \/ \E i \in {Reset} : Inject(i.action, i.payload)
    \/ \E k \in {"clear", "invalid"} : SmartChargingRejected(k, null, null)
    \/ SmartChargingRequest("maxPower", 16, null)
    \/ \E job \in smartJob : SmartChargingSend(job)
    \/ \E job \in smartJob : SmartChargingFail(job)
    \/ \E t \in ttlTimers : TtlExpire(t)
    \/ \E t \in BagToSet(tagTimers) : TagTtlExpire(t)
    \/ \E f, a \in BOOLEAN : SetConfig(f, a)
    \/ \E c \in Conns, m \in {Heartbeat, Preparing} : ChargerCall(c, m.action, m.payload)
    \/ \E c \in Conns, t \in {3, 4} : \E id \in CallsReceived(c) : ChargerResult(c, t, id)
    \/ \E t \in BagToSet(autoStart) : AutoStartFire(t)
    \/ \E s \in DOMAIN sockets : CsmsOpen(s)
    \/ \E s \in DOMAIN sockets : CsmsClosing(s)
    \/ \E s \in DOMAIN sockets : CsmsClose(s)
    \/ \E t \in DOMAIN timers : ReconnectTimerFire(t)
    \/ \E s \in DOMAIN sockets : CsmsCall(s, "GetConfiguration")
    \/ \E job \in downJob : DownstreamRelay(job)
    \/ \E c \in Conns : ChargerClose(c)
    \/ \E c \in Conns : ChargerCloseCleanup(c)

Spec == Init /\ [][Next]_vars

(***************************************************************************)
(* SpecReconnect: the upstream lifecycle.  Chargers connect (also while a  *)
(* session of the same id is live), send Calls and disconnect; upstream    *)
(* sockets open, fail and close; reconnect timers fire.                    *)
(***************************************************************************)
InitReconnect ==
    /\ InitCommon
    /\ AUTO_CHARGE_ENABLED = FALSE
    /\ CSMS_FORWARDING_ENABLED = TRUE
    /\ max_power = null

NextReconnect ==
    \/ \E c \in Conns : Upgrade(c)
    \/ \E c \in Conns : Register(c)
    \/ \E c \in Conns : ChargerCall(c, Heartbeat.action, Heartbeat.payload)
    \/ \E s \in DOMAIN sockets : CsmsOpen(s)
    \/ \E s \in DOMAIN sockets : CsmsClosing(s)
    \/ \E s \in DOMAIN sockets : CsmsClose(s)
    \/ \E t \in DOMAIN timers : ReconnectTimerFire(t)
    \/ \E c \in Conns : ChargerClose(c)
    \/ \E c \in Conns : ChargerCloseCleanup(c)

SpecReconnect == InitReconnect /\ [][NextReconnect]_vars

(***************************************************************************)
(* SpecInject: command injection and response interception.  Operators     *)
(* inject commands, the persistent limit is replayed on connect, the       *)
(* chargers (also a second connection of the same id) answer the Calls     *)
(* they received, the CSMS sends Calls down, and the upstream sockets open *)
(* and close in the meantime.                                              *)
(***************************************************************************)
InitInject ==
    /\ InitCommon
    /\ AUTO_CHARGE_ENABLED = FALSE
    /\ CSMS_FORWARDING_ENABLED \in BOOLEAN
    /\ max_power \in {null, 16}

NextInject ==
    \/ \E c \in Conns : Upgrade(c)
    \/ \E c \in Conns : Register(c)
    \/ \E c \in Conns : LimitQuery(c)
    \/ \E c \in Conns : LimitTimer(c)
    \/ \E i \in {Reset} : Inject(i.action, i.payload)
    \/ \E t \in ttlTimers : TtlExpire(t)
    \/ \E c \in Conns, t \in {3, 4} : \E id \in CallsReceived(c) : ChargerResult(c, t, id)
    \/ \E s \in DOMAIN sockets : CsmsOpen(s)
    \/ \E s \in DOMAIN sockets : CsmsClose(s)
    \/ \E s \in DOMAIN sockets : CsmsCall(s, "GetConfiguration")
    \/ \E job \in downJob : DownstreamRelay(job)

SpecInject == InitInject /\ [][NextInject]_vars

(***************************************************************************)
(* SpecFlood: one charger connects and keeps sending Calls while the       *)
(* upstream handshake is pending.                                          *)
(***************************************************************************)
InitFlood ==
    /\ InitCommon
    /\ AUTO_CHARGE_ENABLED = FALSE
    /\ CSMS_FORWARDING_ENABLED = TRUE
    /\ max_power = null

NextFlood ==
    \/ Upgrade(1)
    \/ Register(1)
    \/ FloodCall(1)

SpecFlood == InitFlood /\ [][NextFlood]_vars

(***************************************************************************)
(* SpecRest: the REST endpoints.  Operators inject commands and set        *)
(* session limits, also when no charger is connected and with a body that  *)
(* lacks the payload; the TTL timers fire; the chargers answer the Calls   *)
(* they received, send Authorize and StatusNotification, and disconnect.   *)
(***************************************************************************)
InitRest ==
    /\ InitCommon
    /\ AUTO_CHARGE_ENABLED = FALSE
    /\ CSMS_FORWARDING_ENABLED = FALSE
    /\ max_power = null

NextRest ==
    \/ \E c \in Conns : Upgrade(c)
    \/ \E c \in Conns : Register(c)
    \/ InjectRejected(Reset.action, Reset.payload)
    \/ \E i \in {Reset, RemoteStart, RemoteStartNoPayload} : Inject(i.action, i.payload)
    \/ \E t \in ttlTimers : TtlExpire(t)
    \/ \E t \in BagToSet(tagTimers) : TagTtlExpire(t)
    \/ \E c \in Conns : \E id \in CallsReceived(c) : ChargerResult(c, 3, id)
    \/ \E c \in Conns : ChargerClose(c)
    \/ \E c \in Conns : ChargerCloseCleanup(c)

SpecRest == InitRest /\ [][NextRest]_vars

(***************************************************************************)
(* SpecConfig: the forwarding switch.  Operators switch forwarding on and  *)
(* off while chargers connect (also a second connection of the same id)    *)
(* and send Calls, upstream sockets close and reconnect timers fire.       *)
(***************************************************************************)
InitConfig ==
    /\ InitCommon
    /\ AUTO_CHARGE_ENABLED = FALSE
    /\ CSMS_FORWARDING_ENABLED \in BOOLEAN
    /\ max_power = null

NextConfig ==
    \/ \E c \in Conns : Upgrade(c)
    \/ \E c \in Conns : Register(c)
    \/ \E f \in BOOLEAN : SetConfig(f, AUTO_CHARGE_ENABLED)
    \/ \E c \in Conns : ChargerCall(c, Heartbeat.action, Heartbeat.payload)
    \/ \E s \in DOMAIN sockets : CsmsClose(s)
    \/ \E t \in DOMAIN timers : ReconnectTimerFire(t)

SpecConfig == InitConfig /\ [][NextConfig]_vars

(***************************************************************************)
(* SpecRelay: the relay to an open upstream.  With auto-charge on or off,  *)
(* chargers connect and send Calls of several actions while the upstream   *)
(* sockets open and close; auto-start timers armed while the upstream was  *)
(* unavailable fire.                                                       *)
(***************************************************************************)
InitRelay ==
    /\ InitCommon
    /\ CSMS_FORWARDING_ENABLED = TRUE
    /\ max_power = null

NextRelay ==
    \/ \E c \in Conns : Upgrade(c)
    \/ \E c \in Conns : Register(c)
    \/ \E c \in Conns, m \in {Heartbeat, Preparing, StartTransaction, DataTransfer} :
          ChargerCall(c, m.action, m.payload)
    \/ \E t \in BagToSet(autoStart) : AutoStartFire(t)
    \/ \E s \in DOMAIN sockets : CsmsOpen(s)
    \/ \E s \in DOMAIN sockets : CsmsClose(s)

SpecRelay == InitRelay /\ [][NextRelay]_vars

(***************************************************************************)
(* SpecStandalone: the standalone responder.  Forwarding is disabled;      *)
(* with auto-charge on or off, chargers connect (also a second connection  *)
(* of the same id) and send Authorize and StartTransaction; operators      *)
(* inject RemoteStartTransaction; the timers of the tracked ids and tags   *)
(* fire.                                                                   *)
(***************************************************************************)
InitStandalone ==
    /\ InitCommon
    /\ CSMS_FORWARDING_ENABLED = FALSE
    /\ max_power = null

NextStandalone ==
    \/ \E c \in Conns : Upgrade(c)
    \/ \E c \in Conns : Register(c)
    \/ Inject(RemoteStart.action, RemoteStart.payload)
    \/ \E t \in ttlTimers : TtlExpire(t)
    \/ \E t \in BagToSet(tagTimers) : TagTtlExpire(t)
    \/ \E c \in Conns, m \in {Authorize, StartTransaction} :
          ChargerCall(c, m.action, m.payload)

SpecStandalone == InitStandalone /\ [][NextStandalone]_vars

(***************************************************************************)
(* SpecAutoStart: the auto-start of the standalone responder.  Forwarding  *)
(* is disabled; with auto-charge on or off, chargers connect (also a       *)
(* second connection of the same id), send StatusNotification, answer the  *)
(* Calls they received and disconnect; the auto-start timers fire.         *)
(***************************************************************************)
InitAutoStart ==
    /\ InitCommon
    /\ CSMS_FORWARDING_ENABLED = FALSE
    /\ max_power = null

NextAutoStart ==
    \/ \E c \in Conns : Upgrade(c)
    \/ \E c \in Conns : Register(c)
    \/ \E c \in Conns, m \in {Preparing, Available} : ChargerCall(c, m.action, m.payload)
    \/ \E t \in BagToSet(autoStart) : AutoStartFire(t)
    \/ \E c \in Conns : \E id \in CallsReceived(c) : ChargerResult(c, 3, id)
    \/ \E c \in Conns : ChargerClose(c)
    \/ \E c \in Conns : ChargerCloseCleanup(c)

SpecAutoStart == InitAutoStart /\ [][NextAutoStart]_vars

(***************************************************************************)
(* SpecLimit: the persistent limit.  Forwarding is disabled; the row of    *)
(* the charge point may carry a limit from an earlier run.  Chargers       *)
(* connect (also a second connection of the same id) and disconnect, the   *)
(* limit is read and replayed on connect, operators set and clear the      *)
(* limit (also when no charger is connected, or without parameters), and   *)
(* the database write succeeds or fails.                                   *)
(***************************************************************************)
InitLimit ==
    /\ InitCommon
    /\ AUTO_CHARGE_ENABLED = FALSE
    /\ CSMS_FORWARDING_ENABLED = FALSE
    /\ max_power \in {null, 16}

NextLimit ==
    \/ \E c \in Conns : Upgrade(c)
    \/ \E c \in Conns : Register(c)
    \/ \E c \in Conns : LimitQuery(c)
    \/ \E c \in Conns : LimitTimer(c)
    \/ \E k \in {"clear", "invalid"} : SmartChargingRejected(k, null, null)
    \/ SmartChargingRequest("maxPower", 10, null)
    \/ SmartChargingRequest("clear", null, null)
    \/ \E job \in smartJob : SmartChargingSend(job)
    \/ \E job \in smartJob : SmartChargingFail(job)
    \/ \E c \in Conns : ChargerClose(c)
    \/ \E c \in Conns : ChargerCloseCleanup(c)

SpecLimit == InitLimit /\ [][NextLimit]_vars

(***************************************************************************)
(* Session limits: the operator sets a session limit, with or without a    *)
(* transaction, and sets the persistent limit, while chargers connect,     *)
(* have the stored limit replayed, and disconnect.                         *)
(***************************************************************************)
NextSession ==
    \/ \E c \in Conns : Upgrade(c)
    \/ \E c \in Conns : Register(c)
    \/ \E c \in Conns : LimitQuery(c)
    \/ \E c \in Conns : LimitTimer(c)
    \/ \E t \in {null, 7} : SmartChargingRequest("sessionLimit", 8, t)
    \/ SmartChargingRequest("maxPower", 10, null)
    \/ \E job \in smartJob : SmartChargingSend(job)
    \/ \E t \in ttlTimers : TtlExpire(t)
    \/ \E c \in Conns : ChargerClose(c)
    \/ \E c \in Conns : ChargerCloseCleanup(c)

SpecSession == InitLimit /\ [][NextSession]_vars

(***************************************************************************)
(* Malformed frames: chargers send frames that are no OCPP frames, and     *)
(* Heartbeat Calls, while the upstream socket is Connecting, Open or lost. *)
(***************************************************************************)
NextMalformed ==
    \/ \E c \in Conns : Upgrade(c)
    \/ \E c \in Conns : Register(c)
    \/ \E c \in Conns, t \in MalformedTypes : ChargerMalformed(c, t)
    \/ \E c \in Conns : ChargerCall(c, Heartbeat.action, Heartbeat.payload)
    \/ \E s \in DOMAIN sockets : CsmsOpen(s)
    \/ \E s \in DOMAIN sockets : CsmsClose(s)

SpecMalformed == InitReconnect /\ [][NextMalformed]_vars

(***************************************************************************)
(* The downstream direction: chargers send Heartbeat Calls, the upstream   *)
(* socket opens and relays them, the CSMS answers them, and the log write  *)
(* each answer waits for returns at some time of its own.                  *)
(***************************************************************************)
NextDown ==
    \/ \E c \in Conns : Upgrade(c)
    \/ \E c \in Conns : Register(c)
    \/ \E c \in Conns : ChargerCall(c, Heartbeat.action, Heartbeat.payload)
    \/ \E s \in DOMAIN sockets : CsmsOpen(s)
    \/ \E s \in DOMAIN sockets, k \in 1..MaxCalls : CsmsResult(s, <<"m", k>>)
    \/ \E job \in downJob : DownstreamRelay(job)

SpecDown == InitReconnect /\ [][NextDown]_vars

\* Everything the event loop and the peers do happens in time; the return of
\* db.logMessage is the one step nothing in the code bounds (no timeout).
SpecDownFair ==
    /\ SpecDown
    /\ \A c \in Conns : WF_vars(Upgrade(c)) /\ WF_vars(Register(c))
    /\ \A c \in Conns : WF_vars(ChargerCall(c, Heartbeat.action, Heartbeat.payload))
    /\ \A s \in 1..MaxSockets : WF_vars(CsmsOpen(s))
    /\ \A s \in 1..MaxSockets, k \in 1..MaxCalls : WF_vars(CsmsResult(s, <<"m", k>>))

(***************************************************************************)
(* Stalled reconnects: as SpecConfig, and the creation of the upstream     *)
(* socket may fail synchronously.                                          *)
(***************************************************************************)
NextStall ==
    \/ \E c \in Conns : Upgrade(c)
    \/ \E c \in Conns : Register(c)
    \/ \E c \in Conns : RegisterConnectFails(c)
    \/ \E f \in BOOLEAN : SetConfig(f, AUTO_CHARGE_ENABLED)
    \/ \E c \in Conns : ChargerCall(c, Heartbeat.action, Heartbeat.payload)
    \/ \E s \in DOMAIN sockets : CsmsClose(s)
    \/ \E t \in DOMAIN timers : ReconnectTimerFire(t)

SpecStall == InitConfig /\ [][NextStall]_vars

(***************************************************************************)
(* Connect attempts under fair scheduling.  Whatever the proxy does itself *)
(* happens in time: handlers run, armed timers fire.  Whether and when an  *)
(* upstream socket opens or closes is up to the network and the CSMS.      *)
(***************************************************************************)
NextConnect ==
    \/ \E c \in Conns : Upgrade(c)
    \/ \E c \in Conns : Register(c)
    \/ \E c \in Conns : ChargerCall(c, Heartbeat.action, Heartbeat.payload)
    \/ \E s \in DOMAIN sockets : CsmsOpen(s)
    \/ \E s \in DOMAIN sockets : CsmsClose(s)
    \/ \E t \in DOMAIN timers : ReconnectTimerFire(t)

SpecConnectFair ==
    /\ InitReconnect
    /\ [][NextConnect]_vars
    /\ \A c \in Conns : WF_vars(Register(c))
    /\ \A t \in 1..(MaxSockets + 1) : WF_vars(ReconnectTimerFire(t))

\* As SpecConnectFair, and the chargers keep sending: every Call a charger
\* has to send is sent and handled.
SpecDrainFair ==
    /\ SpecConnectFair
    /\ \A c \in Conns : WF_vars(ChargerCall(c, Heartbeat.action, Heartbeat.payload))

(***************************************************************************)
(* The standalone responder on every action: as SpecRelay, with Calls of   *)
(* the seven actions the responder knows and of one it does not.           *)
(***************************************************************************)
BootNotification == [action |-> "BootNotification", payload |-> EmptyPayload]
MeterValues == [action |-> "MeterValues", payload |-> EmptyPayload]
StopTransaction == [action |-> "StopTransaction", payload |-> EmptyPayload]

ResponderCalls ==
    {BootNotification, Heartbeat, Authorize, Preparing, MeterValues,
     StartTransaction, StopTransaction, DataTransfer}

NextResponder ==
    \/ \E c \in Conns : Upgrade(c)
    \/ \E c \in Conns : Register(c)
    \/ \E c \in Conns, m \in ResponderCalls : ChargerCall(c, m.action, m.payload)
    \/ \E t \in BagToSet(autoStart) : AutoStartFire(t)
    \/ \E s \in DOMAIN sockets : CsmsOpen(s)
    \/ \E s \in DOMAIN sockets : CsmsClose(s)

SpecResponder == InitRelay /\ [][NextResponder]_vars

(***************************************************************************)
(* The connector of the auto-start: forwarding is disabled; chargers send  *)
(* StatusNotification(Preparing) for connector 0, for connector 2 and      *)
(* without a connectorId; the auto-start timers fire.                      *)
(***************************************************************************)
PreparingOn(k) == [action |-> "StatusNotification",
                   payload |-> [connectorId |-> k, status |-> "Preparing"]]
PreparingNoConnector == [action |-> "StatusNotification",
                         payload |-> [status |-> "Preparing"]]

NextConnector ==
    \/ \E c \in Conns : Upgrade(c)
    \/ \E c \in Conns : Register(c)
    \/ \E c \in Conns, m \in {PreparingOn(0), PreparingOn(2), PreparingNoConnector} :
          ChargerCall(c, m.action, m.payload)
    \/ \E t \in BagToSet(autoStart) : AutoStartFire(t)

SpecConnector == InitAutoStart /\ [][NextConnector]_vars

(***************************************************************************)
(* Vocabulary of the properties.                                           *)
(***************************************************************************)

\* The step handles a frame that arrived on charger socket c.
Handles(c) == Len(sent') = Len(sent) + 1 /\ sent'[Len(sent')].from = c

\* The frame handled by the step.
Handled == sent'[Len(sent')].frame

\* Closure c has a reconnect timer armed.
TimerArmed(c) ==
    \E t \in DOMAIN timers : timers[t].owner = c /\ timers[t].state = "armed"

\* The session of closure c is the registered one and waits for a retry
\* with attempts remaining.
WaitRetry(c) ==
    /\ CSMS_FORWARDING_ENABLED
    /\ clients = c
    /\ chargerSocket[c] = "OPEN"
    /\ TimerArmed(c)
    /\ conn[c].reconnectAttempt < CSMS_RECONNECT_MAX_ATTEMPTS

\* Upstream close events of closure c since its last successful open (the
\* close of that opened socket included).
ClosesSinceOpen(c) ==
    LET mine == {s \in DOMAIN sockets : sockets[s].owner = c}
        lastOpened == CHOOSE k \in {0} \cup {s \in mine : sockets[s].opened} :
                          \A s \in mine : sockets[s].opened => s <= k
    IN Cardinality({s \in mine : s >= lastOpened /\ sockets[s].readyState = "CLOSED"})

\* Nothing of closure c will reach the upstream again: no timer armed, no
\* socket that is not closed.
NoReconnect(c) ==
    /\ ~TimerArmed(c)
    /\ \A s \in DOMAIN sockets : sockets[s].owner = c => sockets[s].readyState = "CLOSED"

\* The registered session has given up: the cap was reached and
\* scheduleReconnect cleared `reconnecting`.
GaveUp ==
    /\ clients # null
    /\ chargerSocket[clients] = "OPEN"
    /\ conn[clients].reconnectAttempt >= CSMS_RECONNECT_MAX_ATTEMPTS
    /\ ~conn[clients].reconnecting

\* Nothing will take the registered session out of its state: no armed timer
\* whose callback would reconnect it, no socket of it that is not closed.
Quiet ==
    /\ \A t \in DOMAIN timers :
          timers[t].state = "armed" => chargerSocket[timers[t].owner] # "OPEN"
    /\ \A s \in DOMAIN sockets :
          sockets[s].connection = clients => sockets[s].readyState = "CLOSED"

\* Only one connection of the charge point has been registered so far.
OnlyOneRegistered ==
    Cardinality({c \in Conns : pc[c] \in {"live", "await_offline", "done"}}) <= 1

\* All egress buffers are left as they are by the step.
BuffersUnchanged == \A r \in Conns : conn'[r].messageBuffer = conn[r].messageBuffer

(***************************************************************************)
(* Properties of injection and interception (checked under SpecInject).    *)
(***************************************************************************)

\* Ids of the Calls the CSMS has sent.
CsmsCallIds == {<<"csms", k>> : k \in 1..csmsCalls}

\* The frames waiting in some egress buffer.
Buffered ==
    UNION {{conn[r].messageBuffer[i] : i \in DOMAIN conn[r].messageBuffer} : r \in Conns}

\* The frames written to some upstream socket.
Delivered == {upstream[i].frame : i \in DOMAIN upstream}

\* C1: every CallResult or CallError delivered to the upstream, or waiting in
\* the egress buffer, answers a Call the CSMS sent; no answer to a Call the
\* proxy generated gets there.
C1_OnlyCsmsAnswersUpstream ==
    \A f \in Delivered \cup Buffered : f.type \in {3, 4} => f.id \in CsmsCallIds

C3_NoUpstreamRowForInjection ==
    \A e1, e2 \in BagToSet(log) :
        (e1.direction = "INJECTION_RESPONSE" /\ e2.direction = "UPSTREAM")
            => e1.payload.id # e2.payload.id

\* C4: the id of the persistent-limit SetChargingProfile sent on connect is in
\* pendingIds when the Call is sent, and the charger's answer to it is
\* intercepted.
C4_ReplayIsTracked ==
    /\ [][\A c \in Conns :
            (/\ limitJob[c].stage = "timer"
             /\ limitJob'[c].stage = "done"
             /\ Len(chargerRx'[c]) = Len(chargerRx[c]) + 1)
                => \E r \in Conns : limitJob[c].id \in conn'[r].pendingIds]_vars
    /\ [](\A k \in DOMAIN sent :
            (\E c \in Conns : limitJob[c].stage = "done"
                                /\ limitJob[c].id = sent[k].frame.id)
                => /\ BagIn(LogRecord("INJECTION_RESPONSE", sent[k].frame), log)
                   /\ sent[k].frame \notin Delivered \cup Buffered)

(***************************************************************************)
(* Properties of the upstream lifecycle (checked under SpecReconnect).     *)
(***************************************************************************)

\* C5: while forwarding is enabled and the session waits for a retry with
\* attempts remaining (the first wait after the close of an Open socket
\* included), every Call of the charger is appended to the egress buffer and
\* no PROXY_RESPONSE is produced.
C5_BufferedWhileWaiting ==
    [][\A c \in Conns :
          (WaitRetry(c) /\ Handles(c) /\ Handled.type = 2)
              => /\ conn'[c].messageBuffer = Append(conn[c].messageBuffer, Handled)
                 /\ LogCount(log', "PROXY_RESPONSE") = LogCount(log, "PROXY_RESPONSE")]_vars

C7_BoundedRetry ==
    \A c \in Conns :
        ClosesSinceOpen(c) >= CSMS_RECONNECT_MAX_ATTEMPTS => NoReconnect(c)

\* C8: once the session has given up, every Call of the charger with a
\* handled action gets a PROXY_RESPONSE and is not buffered, and no reconnect
\* timer and no new upstream socket exists until the charger socket closes.
C8_GaveUpIsFinal ==
    /\ [](GaveUp => Quiet)
    /\ [][(GaveUp /\ Handles(clients) /\ Handled.type = 2)
            => /\ LogCount(log', "PROXY_RESPONSE")
                      = LogCount(log, "PROXY_RESPONSE") + 1
               /\ BuffersUnchanged]_vars

\* C10: at most one connection of the charge point is serviced at any time.
C10_SingleSession ==
    Cardinality({c \in Conns : pc[c] = "live" /\ chargerSocket[c] = "OPEN"}) <= 1

(***************************************************************************)
(* Property of the egress buffer (checked under SpecFlood).                *)
(***************************************************************************)

\* C9: the egress buffer never holds more than 1,024 frames.
C9_BufferWithinCap ==
    \A r \in Conns : Len(conn[r].messageBuffer) <= 1024

(***************************************************************************)
(* Properties of the REST endpoints (checked under SpecRest).              *)
(***************************************************************************)

\* The step answers a request to the given endpoint.
Answers(request) ==
    Len(rest') = Len(rest) + 1 /\ rest'[Len(rest')].request = request

\* The request answered by the step, with its response.
Answered == rest'[Len(rest')]

\* Message ids that occur in the state: tracked, written to a charger or logged.
IdsInUse ==
    UNION {conn[r].pendingIds \cup {chargerRx[r][i].id : i \in DOMAIN chargerRx[r]}
              : r \in Conns}
        \cup {e.payload.id : e \in BagToSet(log)}

\* C11: an inject request issued while the registry holds no session of the
\* charge point, or while the charger socket of the session is not OPEN, is
\* answered 503 and changes nothing: no id is added to pendingIds, no tag to
\* pendingIdTags, no timer is armed, no frame is written to any charger
\* socket and no log row is written.
C11_InjectFailsFast ==
    [][(/\ Answers("inject")
        /\ IF clients = null THEN TRUE ELSE chargerSocket[clients] # "OPEN")
          => /\ Answered.status = 503
             /\ UNCHANGED <<conn, ttlTimers, tagTimers, chargerRx, log, uuids>>]_vars

\* C11 (witness): after a successful injection into the only session, a
\* second request was answered 503 while the registry still held the session
\* and its charger socket had closed.
C11_Witness ==
    /\ Len(rest) = 2
    /\ rest[1].status = 200
    /\ rest[2].status = 503
    /\ clients = 1
    /\ pc[2] = "idle"
    /\ chargerSocket[1] = "CLOSED"

\* C12: an inject request answered 200 has drawn a fresh id, which is in
\* pendingIds of the session in the state in which the Call is on the charger
\* socket (both happen in the one step, so no answer is handled in between);
\* the idTag of a RemoteStartTransaction is in pendingIdTags; exactly one
\* frame, the Call [2, id, action, payload], is written, to the charger socket
\* of that session only; exactly one row, an INJECTION_REQUEST with that Call,
\* is logged; and the response carries the same id.
C12_InjectTracksThenSends ==
    [][(Answers("inject") /\ Answered.status = 200)
          => LET r == clients
                 m == Answered.messageId
                 call == Call(m, Answered.body.action, Answered.body.payload)
             IN /\ r # null
                /\ m \notin IdsInUse
                /\ m \in conn'[r].pendingIds
                /\ [connection |-> r, id |-> m] \in ttlTimers'
                /\ Answered.body.action = "RemoteStartTransaction"
                      => Answered.body.payload.idTag \in conn'[r].pendingIdTags
                /\ chargerRx' = [chargerRx EXCEPT ![r] = Append(@, call)]
                /\ log' = log (+) SetToBag({LogRecord("INJECTION_REQUEST", call)})]_vars

\* C12 (witness): a RemoteStartTransaction was injected; its id and its idTag
\* are tracked and the Call is on the charger socket.
C12_Witness ==
    /\ clients # null
    /\ \E i \in DOMAIN rest :
          /\ rest[i].status = 200
          /\ rest[i].body.action = "RemoteStartTransaction"
          /\ rest[i].messageId \in conn[clients].pendingIds
          /\ rest[i].body.payload.idTag \in conn[clients].pendingIdTags
          /\ rest[i].messageId \in CallsReceived(clients)

\* C13: every entry of pendingIds and of pendingIdTags has its 60 s timer
\* armed, so that it is gone when the timer fires at the latest; and a timer
\* that fires after its entry was removed changes neither set.
C13_EveryEntryExpires ==
    /\ [](\A r \in Conns :
            /\ \A id \in conn[r].pendingIds :
                  [connection |-> r, id |-> id] \in ttlTimers
            /\ \A tag \in conn[r].pendingIdTags :
                  BagIn([connection |-> r, idTag |-> tag], tagTimers))
    /\ [][/\ \A t \in ttlTimers \ ttlTimers' :
               t.id \notin conn[t.connection].pendingIds => conn' = conn
          /\ \A t \in BagToSet(tagTimers (-) tagTimers') :
               t.idTag \notin conn[t.connection].pendingIdTags => conn' = conn]_vars

(***************************************************************************)
(* Properties of the forwarding switch (checked under SpecConfig).         *)
(***************************************************************************)

\* The session of connection c has had no upstream socket so far: none was
\* created by its closure, none was attached to its connection object.
NoUpstream(c) ==
    \A s \in DOMAIN sockets : sockets[s].owner # c /\ sockets[s].connection # c

\* The step registers the session of connection c.
Registers(c) == pc[c] = "await_online" /\ pc'[c] = "live"

\* The actions the standalone responder answers.
HandledActions ==
    {"BootNotification", "Heartbeat", "Authorize", "StatusNotification",
     "MeterValues", "StartTransaction", "StopTransaction"}

\* C14: a session registered while forwarding is disabled gets no upstream
\* socket then, and gets none later either, whatever happens to the switch;
\* and every Call with a handled action its charger sends is answered by the
\* standalone responder (one PROXY_RESPONSE, nothing buffered, nothing sent
\* upstream).
C14_StandaloneForLife ==
    [][\A c \in Conns :
          /\ (Registers(c) /\ ~CSMS_FORWARDING_ENABLED) => NoUpstream(c)'
          /\ (pc[c] = "live" /\ NoUpstream(c))
                => /\ NoUpstream(c)'
                   /\ (Handles(c) /\ Handled.type = 2
                          /\ Handled.action \in HandledActions)
                         => /\ LogCount(log', "PROXY_RESPONSE")
                                  = LogCount(log, "PROXY_RESPONSE") + 1
                            /\ Len(chargerRx'[c]) = Len(chargerRx[c]) + 1
                            /\ chargerRx'[c][Len(chargerRx'[c])].id = Handled.id
                            /\ BuffersUnchanged
                            /\ upstream' = upstream]_vars

(***************************************************************************)
(* Properties of the relay (checked under SpecRelay).                      *)
(***************************************************************************)

\* The upstream socket of closure c is OPEN.
UpstreamOpen(c) ==
    csmsSocket[c] # null /\ sockets[csmsSocket[c]].readyState = "OPEN"

\* C15: while the upstream socket of a connection is OPEN, every Call of its
\* charger is written unchanged to that socket (and logged UPSTREAM once);
\* the proxy writes nothing to the charger, logs no PROXY_RESPONSE, arms no
\* auto-start timer, draws no transaction id and buffers nothing, whatever
\* the action and whether auto-charge is enabled or not.
C15_OpenRelay ==
    [][\A c \in Conns :
          (UpstreamOpen(c) /\ Handles(c) /\ Handled.type = 2)
              => /\ upstream' = Append(upstream, [sock |-> csmsSocket[c],
                                                  frame |-> Handled,
                                                  via |-> "send"])
                 /\ log' = log (+) SetToBag({LogRecord("UPSTREAM", Handled)})
                 /\ chargerRx' = chargerRx
                 /\ autoStart' = autoStart
                 /\ transactionIdCounter' = transactionIdCounter
                 /\ BuffersUnchanged]_vars

\* C15 (witness): with auto-charge enabled a StatusNotification(Preparing)
\* went to the open upstream; nothing was answered and no auto-start is armed.
C15_Witness ==
    /\ AUTO_CHARGE_ENABLED
    /\ \E i \in DOMAIN upstream :
          /\ upstream[i].frame.action = "StatusNotification"
          /\ upstream[i].frame.payload.status = "Preparing"
          /\ sockets[upstream[i].sock].readyState = "OPEN"
    /\ autoStart = EmptyBag
    /\ \A c \in Conns : chargerRx[c] = <<>>

(***************************************************************************)
(* Properties of the standalone responder (checked under SpecStandalone).  *)
(***************************************************************************)

\* The last frame written to charger socket c by the step.
Reply(c) == chargerRx'[c][Len(chargerRx'[c])]

\* Authorize Calls answered Accepted so far.
AcceptedAuthorizes ==
    Cardinality(UNION {{<<c, i>> : i \in {j \in DOMAIN chargerRx[c] :
                          /\ chargerRx[c][j].type = 3
                          /\ Field(chargerRx[c][j].payload, "idTagInfo") = "Accepted"
                          /\ "transactionId" \notin DOMAIN chargerRx[c][j].payload}}
                       : c \in Conns})

\* RemoteStartTransaction commands injected so far.
InjectedStarts ==
    Cardinality({i \in DOMAIN rest : rest[i].status = 200
                                       /\ rest[i].body.action = "RemoteStartTransaction"})

StartCalls == {k \in DOMAIN sent : sent[k].frame.action = "StartTransaction"}

\* The transactionId answered to the Call at position k of sent (0 if none).
AnsweredTransactionId(k) ==
    LET c == sent[k].from
        replies == {i \in DOMAIN chargerRx[c] :
                       /\ chargerRx[c][i].type = 3
                       /\ chargerRx[c][i].id = sent[k].frame.id
                       /\ "transactionId" \in DOMAIN chargerRx[c][i].payload}
    IN IF replies = {} THEN 0
       ELSE chargerRx[c][CHOOSE i \in replies : TRUE].payload.transactionId

\* C17: the k-th StartTransaction the standalone responder answers, counted
\* over all sessions in the order of handling, gets transactionId
\* 100000 + k - 1: the first gets 100000, the values increase strictly and
\* no two responses carry the same one.
C17_TransactionIdsIncrease ==
    /\ \A k \in StartCalls :
          AnsweredTransactionId(k)
              = 100000 + Cardinality({j \in StartCalls : j < k})
    /\ transactionIdCounter = 100000 + Cardinality(StartCalls)

\* C17 (witness): two sessions of the charge point each got a StartTransaction
\* answered, the later one first.
C17_Witness ==
    /\ Cardinality(StartCalls) = 2
    /\ \E j, k \in StartCalls :
          /\ j < k
          /\ sent[j].from = 2
          /\ sent[k].from = 1
          /\ AnsweredTransactionId(j) = 100000
          /\ AnsweredTransactionId(k) = 100001

(***************************************************************************)
(* Properties of the auto-start (checked under SpecAutoStart).             *)
(***************************************************************************)

\* The auto-start timers whose callback runs in the step.
AutoStartFired == BagToSet(autoStart (-) autoStart')

\* C18: when the standalone responder handles a StatusNotification, the
\* charger receives the empty CallResult in that step, and an auto-start is
\* scheduled exactly when auto-charge is enabled and the status is Preparing;
\* when the scheduled timer fires and the socket of the charger that sent
\* the notification is still OPEN, that charger receives exactly one
\* RemoteStartTransaction Call with the default idTag, whose id is in
\* pendingIds of the registered session.
C18_AutoStart ==
    [][/\ \A c \in Conns :
            (/\ Handles(c)
             /\ Handled.type = 2
             /\ Handled.action = "StatusNotification"
             /\ Standalone(Handled, clients, csmsSocket[c]))
               => /\ chargerRx'[c] = Append(chargerRx[c],
                                            CallResult(Handled.id, EmptyPayload))
                  /\ BagCardinality(autoStart') =
                        BagCardinality(autoStart)
                          + (IF AUTO_CHARGE_ENABLED
                                  /\ Field(Handled.payload, "status") = "Preparing"
                             THEN 1 ELSE 0)
       /\ \A t \in AutoStartFired :
            chargerSocket[t.owner] = "OPEN"
               => /\ Len(chargerRx'[t.owner]) = Len(chargerRx[t.owner]) + 1
                  /\ Reply(t.owner).type = 2
                  /\ Reply(t.owner).action = "RemoteStartTransaction"
                  /\ Reply(t.owner).payload.idTag = "DEFAULT_ID_TAG"
                  /\ clients # null
                  /\ Reply(t.owner).id \in conn'[clients].pendingIds]_vars

(***************************************************************************)
(* Properties of the persistent limit (checked under SpecLimit).           *)
(***************************************************************************)

\* Frame f is a SetChargingProfile Call for a ChargePointMaxProfile with
\* profile id 1, stack level 1 and the single period {startPeriod 0, limit x}.
IsMaxProfileCall(f, x) ==
    /\ f.type = 2
    /\ f.action = "SetChargingProfile"
    /\ f.payload.chargingProfileId = 1
    /\ f.payload.stackLevel = 1
    /\ f.payload.chargingProfilePurpose = "ChargePointMaxProfile"
    /\ f.payload.chargingSchedule.chargingSchedulePeriod
           = <<[startPeriod |-> 0, limit |-> x]>>

WriteEnded == smartJob \ smartJob'

\* C20: a set or clear of the persistent limit whose database write fails is
\* answered with an error and leaves everything else alone: no Call is
\* written to a charger socket, no id is added to pendingIds, no timer is
\* armed, no INJECTION_REQUEST is logged and the row keeps its value.  A Call
\* goes out only with status 200, after the row was written.
C20_FailedWriteSendsNothing ==
    [][\A job \in WriteEnded :
          /\ Answers("smart-charging")
          /\ Answered.body = job.body
          /\ IF Answered.status = 200
             THEN /\ max_power' = IF job.body.kind = "clear" THEN null
                                  ELSE job.body.limit
                  /\ Len(chargerRx'[job.connection])
                        <= Len(chargerRx[job.connection]) + 1
             ELSE /\ Answered.status = 500
                  /\ UNCHANGED <<conn, ttlTimers, chargerRx, log, uuids, max_power>>]_vars

\* C20 (witness): the write of a new limit failed while the charger was
\* connected: the request was answered 500, the row is empty, nothing was
\* sent, tracked or logged.
C20_Witness ==
    /\ Len(rest) = 1
    /\ rest[1].status = 500
    /\ rest[1].body.kind = "maxPower"
    /\ clients # null
    /\ chargerSocket[clients] = "OPEN"
    /\ max_power = null
    /\ chargerRx[clients] = <<>>
    /\ conn[clients].pendingIds = {}
    /\ log = EmptyBag

\* The frames written to charger sockets by the step, as <<connection, frame>>.
Written ==
    UNION {{<<c, chargerRx'[c][i]>> : i \in (Len(chargerRx[c]) + 1)..Len(chargerRx'[c])}
              : c \in Conns}

\* C21: every successful set of the persistent limit x leaves the row at x,
\* whatever it was (so a second set of the same x leaves it as the first
\* did), and sends its own Call: a SetChargingProfile for
\* ChargePointMaxProfile with a fresh id, which is tracked in pendingIds with
\* its timer armed; the ids of the requests answered 200 are pairwise
\* distinct.
C21_SetLimitTwice ==
    /\ [][\A job \in WriteEnded :
             (Answers("smart-charging") /\ Answered.status = 200
                 /\ job.body.kind = "maxPower")
                => LET m == Answered.messageId
                       r == job.connection
                   IN /\ max_power' = job.body.limit
                      /\ m \notin IdsInUse
                      /\ m \in conn'[r].pendingIds
                      /\ [connection |-> r, id |-> m] \in ttlTimers'
                      /\ chargerSocket[r] = "OPEN"
                            => \E f \in {w[2] : w \in Written} :
                                  /\ Written = {<<r, f>>}
                                  /\ f.id = m
                                  /\ IsMaxProfileCall(f, job.body.limit)]_vars
    /\ [](\A i, j \in DOMAIN rest :
             (i # j /\ rest[i].status = 200 /\ rest[j].status = 200)
                => rest[i].messageId # rest[j].messageId)

\* C21 (witness): the limit 10 was set twice in a row on a connected charger:
\* the row carries 10, two Calls with different ids are on the charger socket
\* and both ids are tracked.
C21_Witness ==
    /\ Len(rest) = 2
    /\ \A i \in {1, 2} : rest[i].status = 200 /\ rest[i].body.kind = "maxPower"
                                                /\ rest[i].body.limit = 10
    /\ max_power = 10
    /\ clients # null
    /\ Len(chargerRx[clients]) = 2
    /\ IsMaxProfileCall(chargerRx[clients][1], 10)
    /\ IsMaxProfileCall(chargerRx[clients][2], 10)
    /\ {rest[1].messageId, rest[2].messageId} = conn[clients].pendingIds
    /\ Cardinality(conn[clients].pendingIds) = 2

SocketsOf(c) == {s \in DOMAIN sockets : sockets[s].owner = c}
LiveSocketsOf(c) ==
    {s \in SocketsOf(c) : sockets[s].readyState \in {"CONNECTING", "OPEN"}}

\* The reconnect timers armed by closure c.
ArmedTimersOf(c) ==
    {t \in DOMAIN timers : timers[t].owner = c /\ timers[t].state = "armed"}

\* C23: the step in which the close handler of a session's charger socket
\* finishes leaves no reconnect timer of that session armed and no upstream
\* socket of that session Connecting or Open; and once the charger socket of
\* a session is closed, no step creates an upstream socket or arms a
\* reconnect timer for that session.
C23_Teardown ==
    [][\A c \in Conns :
          /\ (pc[c] = "await_offline" /\ pc'[c] = "done")
                => ArmedTimersOf(c)' = {} /\ LiveSocketsOf(c)' = {}
          /\ chargerSocket[c] = "CLOSED"
                => /\ SocketsOf(c)' = SocketsOf(c)
                   /\ ArmedTimersOf(c)' \subseteq ArmedTimersOf(c)]_vars

\* C24: a step that handles a charger frame which is no OCPP frame writes
\* nothing to an upstream socket and leaves the egress buffers as they are,
\* and the session stays registered with its charger socket open.
C24_MalformedDropped ==
    [][\A c \in Conns :
          (Handles(c) /\ Handled.type \in MalformedTypes)
             => /\ upstream' = upstream
                /\ BuffersUnchanged
                /\ clients' = clients
                /\ chargerSocket'[c] = "OPEN"]_vars

\* The arrival numbers of the upstream frames written to charger socket c, in
\* the order they were written.
RelayedSeqs(c) == [i \in DOMAIN chargerRx[c] |-> chargerRx[c][i].seq]

\* C25: the frames received from upstream are written to each charger socket
\* in the order of their arrival.
C25_DownstreamInOrder ==
    \A c \in Conns :
       \A i, j \in DOMAIN chargerRx[c] :
          i < j => RelayedSeqs(c)[i] < RelayedSeqs(c)[j]

\* The answer to the charger's Call k has arrived from upstream.
AnswerArrived(k) ==
    \E e \in BagToSet(log) :
       e.direction = "DOWNSTREAM" /\ e.payload.id = <<"m", k>>

\* The answer to the charger's Call k was written to a charger socket.
AnswerRelayed(k) ==
    \E c \in Conns : \E i \in DOMAIN chargerRx[c] :
       chargerRx[c][i].type = 3 /\ chargerRx[c][i].id = <<"m", k>>

\* C26: relaying does not wait for the log.  A Call the charger sends while
\* its upstream socket is OPEN is written to that socket in the step that
\* handles it; and every answer that arrives from upstream is eventually
\* written to the charger socket, whether or not its log write returns.
C26_RelayNeverWaits ==
    /\ [][\A c \in Conns :
             (Handles(c) /\ Handled.type = 2 /\ csmsSocket[c] # null
                 /\ sockets[IF csmsSocket[c] # null THEN csmsSocket[c] ELSE 1]
                        .readyState = "OPEN")
                => upstream' = Append(upstream, [sock |-> csmsSocket[c],
                                                 frame |-> Handled,
                                                 via |-> "send"])]_vars
    /\ \A k \in 1..MaxCalls : AnswerArrived(k) ~> AnswerRelayed(k)

\* Upstream socket s becomes Open in the step.
Opens(s) == sockets[s].readyState = "CONNECTING" /\ sockets'[s].readyState = "OPEN"

\* C27: the step in which an upstream socket of a session becomes Open writes
\* the frames of the session's egress buffer to that socket, each once and
\* in the order of the buffer, writes nothing else upstream, and leaves the
\* buffer empty.
C27_FlushOnOpen ==
    [][\A s \in DOMAIN sockets :
          Opens(s)
             => LET c == sockets[s].owner
                    buffer == conn[c].messageBuffer
                IN /\ upstream' = upstream \o
                         [i \in 1..Len(buffer) |->
                             [sock |-> s, frame |-> buffer[i], via |-> "flush"]]
                   /\ conn'[c].messageBuffer = <<>>]_vars

\* A reconnect of closure c is in progress: its upstream socket is
\* Connecting (or closing, with the 'close' event that schedules the retry
\* still to come), or one of its reconnect timers is armed.
ReconnectInProgress(c) ==
    \/ TimerArmed(c)
    \/ IF csmsSocket[c] = null THEN FALSE
       ELSE sockets[csmsSocket[c]].readyState \in {"CONNECTING", "CLOSING"}

\* C28: a step that handles a Call of a charger and appends it to an egress
\* buffer is taken only while a reconnect of that session is in progress.
C28_BufferOnlyWhileReconnecting ==
    [][\A c \in Conns :
          (Handles(c) /\ Handled.type = 2 /\ ~BuffersUnchanged)
             => ReconnectInProgress(c)]_vars

\* The session of closure c has given up: the cap was reached and
\* scheduleReconnect cleared `reconnecting`.
SessionGaveUp(c) ==
    /\ conn[c].reconnectAttempt >= CSMS_RECONNECT_MAX_ATTEMPTS
    /\ ~conn[c].reconnecting

\* C29: with forwarding enabled, every registered session eventually has its
\* upstream socket Open or has given up, also when a connect attempt neither
\* opens nor fails.
C29_ConnectResolves ==
    \A c \in Conns :
       (pc[c] = "live" /\ CSMS_FORWARDING_ENABLED)
          ~> (UpstreamOpen(c) \/ SessionGaveUp(c))

\* The frames in the egress buffer of session c that were neither written
\* to an upstream socket nor answered on the charger socket.
Unserved(c) ==
    {i \in DOMAIN conn[c].messageBuffer :
        LET f == conn[c].messageBuffer[i]
        IN /\ \A k \in DOMAIN upstream : upstream[k].frame # f
           /\ \A k \in DOMAIN chargerRx[c] :
                 ~(chargerRx[c][k].type = 3 /\ chargerRx[c][k].id = f.id)}

\* C30: once a session has given up, its egress buffer eventually holds no
\* frame that is both undelivered and unanswered (in particular when the
\* buffer becomes empty), while the charger keeps sending Calls that the
\* standalone responder handles.
C30_BufferDrained ==
    \A c \in Conns :
       (pc[c] = "live" /\ SessionGaveUp(c)) ~> (Unserved(c) = {})

\* C31: the reconnect attempt counter of every session lies in 0..M, and the
\* step in which an upstream socket of a session becomes Open leaves the
\* counter of that session at 0.
C31_AttemptCounter ==
    /\ [](\A c \in Conns :
             conn[c].reconnectAttempt \in 0..CSMS_RECONNECT_MAX_ATTEMPTS)
    /\ [][\A s \in DOMAIN sockets :
             Opens(s) => conn'[sockets[s].owner].reconnectAttempt = 0]_vars

\* Reconnect timer t fires in the step.
Fires(t) == timers[t].state = "armed" /\ timers'[t].state = "fired"

C33_StandaloneResponder ==
    [][\A c \in Conns :
          (Handles(c) /\ Standalone(Handled, clients, csmsSocket[c]))
             => /\ upstream' = upstream
                /\ BuffersUnchanged
                /\ LogCount(log', "UPSTREAM") = LogCount(log, "UPSTREAM") + 1
                /\ IF Handled.action \in HandledActions
                   THEN /\ \E f \in {w[2] : w \in Written} :
                             /\ Written = {<<c, f>>}
                             /\ f.type = 3
                             /\ f.id = Handled.id
                        /\ Len(chargerRx'[c]) = Len(chargerRx[c]) + 1
                        /\ LogCount(log', "PROXY_RESPONSE")
                              = LogCount(log, "PROXY_RESPONSE") + 1
                   ELSE /\ chargerRx' = chargerRx
                        /\ LogCount(log', "PROXY_RESPONSE")
                              = LogCount(log, "PROXY_RESPONSE")]_vars

\* C33 (witness): with the upstream lost, a charger sent MeterValues and
\* DataTransfer; the first was answered, the second was not.
C33_Witness ==
    /\ Len(sent) = 2
    /\ sent[1].frame.action = "MeterValues"
    /\ sent[2].frame.action = "DataTransfer"
    /\ sent[1].from = sent[2].from
    /\ Len(chargerRx[sent[1].from]) = 1
    /\ chargerRx[sent[1].from][1].id = sent[1].frame.id
    /\ chargerRx[sent[1].from][1].type = 3
    /\ LogCount(log, "UPSTREAM") = 2
    /\ LogCount(log, "PROXY_RESPONSE") = 1
    /\ upstream = <<>>
    /\ \E s \in DOMAIN sockets : sockets[s].opened

\* The auto-start timers armed in the step.
AutoStartArmed == BagToSet(autoStart' (-) autoStart)

\* C34: the auto-start armed by a StatusNotification is for the connectorId
\* of that notification whenever the field is present, 0 included, and for
\* connector 1 when it is absent; and the RemoteStartTransaction written
\* when the timer fires carries the connectorId the timer was armed for.
C34_AutoStartConnector ==
    [][/\ \A c \in Conns : \A t \in AutoStartArmed :
             Handles(c)
                => t.connectorId
                     = IF "connectorId" \in DOMAIN Handled.payload
                       THEN Handled.payload.connectorId ELSE 1
       /\ \A t \in AutoStartFired : \A w \in Written :
             w[2].payload.connectorId = t.connectorId]_vars

\* C35: a tag leaves pendingIdTags of a session only when a handled
\* Authorize for that tag consumes it or when no 60 s timer of an injection
\* of that tag is left armed, i.e. when the 60 s of the latest injection of
\* the tag have elapsed.
C35_TagKeptForItsTtl ==
    [][\A r \in Conns : \A tag \in conn[r].pendingIdTags :
          tag \notin conn'[r].pendingIdTags
             => \/ \E c \in Conns :
                     /\ Handles(c)
                     /\ Handled.action = "Authorize"
                     /\ Field(Handled.payload, "idTag") = tag
                \/ ~BagIn([connection |-> r, idTag |-> tag], tagTimers')]_vars

\* C36: the step in which the close handler of charger socket c finishes
\* leaves every other session whose charger socket is OPEN as it is: it
\* stays in the registry if it was there, its record, its upstream sockets
\* and its reconnect timers are unchanged.
C36_CloseRemovesOwnSession ==
    [][\A c \in Conns :
          (pc[c] = "await_offline" /\ pc'[c] = "done")
             => \A d \in Conns \ {c} :
                   (pc[d] = "live" /\ chargerSocket[d] = "OPEN")
                      => /\ clients = d => clients' = d
                         /\ conn'[d] = conn[d]
                         /\ \A s \in SocketsOf(d) : sockets'[s] = sockets[s]
                         /\ \A t \in ArmedTimersOf(d) : timers'[t] = timers[t]]_vars


(***************************************************************************)
(* SpecStatus: the persistent status row.  No upstream; chargers connect,  *)
(* send Heartbeat Calls whose log writes land at once or stay in flight,   *)
(* and disconnect; the in-flight status writes land.                       *)
(***************************************************************************)
NextStatus ==
    \/ \E c \in Conns : Upgrade(c)
    \/ \E c \in Conns : Register(c)
    \/ \E c \in Conns : ChargerCall(c, Heartbeat.action, Heartbeat.payload)
    \/ \E c \in Conns : ChargerCallSlowLog(c, Heartbeat.action, Heartbeat.payload)
    \/ StatusWrite
    \/ \E c \in Conns : ChargerClose(c)
    \/ \E c \in Conns : ChargerCloseCleanup(c)

SpecStatus == InitStandalone /\ [][NextStatus]_vars

\* Every session that was registered is destroyed, none is being set up, and
\* no status write is in flight.
AllDestroyedAndSettled ==
    /\ \A c \in Conns : pc[c] \in {"idle", "done"}
    /\ \E c \in Conns : pc[c] = "done"
    /\ statusJob = 0

\* C37: once the sessions are destroyed and every persistence call issued
\* for them has completed, the persistent row of the charger reads OFFLINE.
C37_OfflineAfterDestroy == AllDestroyedAndSettled => status = "OFFLINE"


\* Rows of the logs table with direction UPSTREAM that hold the frame.
UpstreamRecords(frame) == CopiesIn(LogRecord("UPSTREAM", frame), log)

\* The charger Calls that a connection answered itself: the Call was sent on
\* socket c and a CallResult with its id was written back to socket c.
AnsweredByProxy ==
    {i \in DOMAIN sent :
        /\ sent[i].frame.type = 2
        /\ \E j \in DOMAIN chargerRx[sent[i].from] :
              /\ chargerRx[sent[i].from][j].type = 3
              /\ chargerRx[sent[i].from][j].id = sent[i].frame.id}

\* C38: every charger frame written to an upstream socket, by a direct send
\* or by a flush of the buffer, has exactly one UPSTREAM row in the log, and
\* so has every Call the standalone responder answered.
C38_OneUpstreamRecord ==
    /\ \A i \in DOMAIN upstream : UpstreamRecords(upstream[i].frame) = 1
    /\ \A i \in AnsweredByProxy : UpstreamRecords(sent[i].frame) = 1


(***************************************************************************)
(* SpecDisposition: what becomes of each charger Call.  Chargers connect   *)
(* and send Heartbeat and DataTransfer Calls; the upstream sockets open    *)
(* and close, the reconnect timers fire (up to giving up); the CSMS        *)
(* answers the Calls it was given and the answers are relayed.             *)
(***************************************************************************)
NextDisposition ==
    \/ \E c \in Conns : Upgrade(c)
    \/ \E c \in Conns : Register(c)
    \/ \E c \in Conns, m \in {Heartbeat, DataTransfer} :
          ChargerCall(c, m.action, m.payload)
    \/ \E s \in DOMAIN sockets : CsmsOpen(s)
    \/ \E s \in DOMAIN sockets : CsmsClose(s)
    \/ \E t \in DOMAIN timers : ReconnectTimerFire(t)
    \/ \E s \in DOMAIN sockets, k \in 1..MaxCalls : CsmsResult(s, <<"m", k>>)
    \/ \E job \in downJob : DownstreamRelay(job)

SpecDisposition == InitReconnect /\ [][NextDisposition]_vars

\* Writes of the frame to upstream sockets (direct sends and flushes).
Deliveries(frame) ==
    Cardinality({k \in DOMAIN upstream : upstream[k].frame = frame})

\* Places the frame holds in the egress buffers.
BufferPlaces(frame) ==
    Cardinality({<<d, k>> \in Conns \X (1..MaxCalls) :
                    /\ k \in DOMAIN conn[d].messageBuffer
                    /\ conn[d].messageBuffer[k] = frame})

\* PROXY_RESPONSE rows logged for the Call id.
ProxyAnswers(id) ==
    BagCardinality([e \in {x \in BagToSet(log) : /\ x.direction = "PROXY_RESPONSE"
                                                  /\ x.payload.id = id} |-> log[e]])

\* Responses (CallResult or CallError) written to charger socket c for id.
Responses(c, id) ==
    Cardinality({j \in DOMAIN chargerRx[c] : /\ chargerRx[c][j].type \in {3, 4}
                                             /\ chargerRx[c][j].id = id})

\* The Calls the charger side has sent.
SentCalls == {i \in DOMAIN sent : sent[i].frame.type = 2}

\* C39: a charger Call has at most one disposition. It is never at once
\* answered by the proxy and delivered to (or waiting in a buffer for) the
\* CSMS, never delivered twice and never in the buffers twice; and no more
\* than one response for it is written to the charger.
C39_OneDisposition ==
    \A i \in SentCalls :
       /\ Deliveries(sent[i].frame) + BufferPlaces(sent[i].frame)
             + ProxyAnswers(sent[i].frame.id) <= 1
       /\ \A c \in Conns : Responses(c, sent[i].frame.id) <= 1

\* A Call was buffered while the upstream reconnected, flushed on the open
\* and answered by the CSMS; another Call was answered by the proxy.
C39_Witness ==
    /\ \E i \in SentCalls :
          /\ \E k \in DOMAIN upstream : /\ upstream[k].frame = sent[i].frame
                                        /\ upstream[k].via = "flush"
          /\ Responses(sent[i].from, sent[i].frame.id) = 1
    /\ \E i \in SentCalls : ProxyAnswers(sent[i].frame.id) = 1


(***************************************************************************)
(* SpecEarly: the window between the upgrade and the registration of the   *)
(* message handler.  No upstream; chargers connect, send Heartbeat Calls   *)
(* (also before the awaited status write has returned) and disconnect.     *)
(***************************************************************************)
NextEarly ==
    \/ \E c \in Conns : Upgrade(c)
    \/ \E c \in Conns : Register(c)
    \/ \E c \in Conns : ChargerCallEarly(c, Heartbeat.action, Heartbeat.payload)
    \/ \E c \in Conns : ChargerCall(c, Heartbeat.action, Heartbeat.payload)
    \/ \E c \in Conns : ChargerClose(c)
    \/ \E c \in Conns : ChargerCloseCleanup(c)

SpecEarly == InitStandalone /\ [][NextEarly]_vars

\* The forwarding rule has dealt with the frame: it was written upstream,
\* sits in a buffer, or the handler logged it (as relayed, intercepted or
\* answered).
DealtWith(frame) ==
    \/ Deliveries(frame) >= 1
    \/ BufferPlaces(frame) >= 1
    \/ \E e \in BagToSet(log) : e.payload = frame

\* C40: every frame the charger sends once its upgrade has completed is
\* handled by the forwarding rule, at the latest when the connection handler
\* has registered the session; with no upstream every Heartbeat Call is
\* answered by the proxy.
C40_NoFrameLost ==
    \A i \in DOMAIN sent :
       pc[sent[i].from] # "await_online"
          => /\ DealtWith(sent[i].frame)
             /\ ProxyAnswers(sent[i].frame.id) = 1

====
